---- MODULE Spec2Model ----
(***************************************************************************)
(* Clawbox orchestration engine: VM backend, path lock manager, provision  *)
(* marker store, watcher records, sync sessions and the orchestrator       *)
(* commands (create, launch, provision, up, down, delete) as a state       *)
(* machine. Every CLI invocation is a process that walks through the code  *)
(* of its command one external effect at a time.                           *)
(***************************************************************************)
EXTENDS Integers, Sequences, FiniteSets, TLC

\* ------------------------------------------------------------------ bounds
MaxCmds == 2          \* CLI invocations started in one behaviour
MaxLockCalls == 3     \* direct acquire_path_lock calls in one behaviour (lock specs)
MaxWatcherCalls == 3  \* direct calls of the watcher's host functions in one behaviour
MaxEmits == 7         \* emit_sync_event calls in one behaviour (log spec)
MaxLogBytes == 4      \* CLAWBOX_SYNC_EVENT_LOG_MAX_BYTES in the log spec
MaxEventLen == 3      \* longest encoded event record, in bytes
EventLens == 1..MaxEventLen
CommandEventLen == 1  \* bytes of an event record emitted by a command

\* ------------------------------------------------------- program constants
max_attempts == 12    \* locks.py: attempts of acquire_path_lock
empty_owner_waits == 3 \* locks.py: attempts that only wait on empty owner metadata

VMs == {"clawbox-1", "clawbox-2"}
Paths == {"/a", "/b", "/s"}
Procs == {1, 2}

\* locks.py ALL_LOCK_SPECS, by lock_kind
ALL_LOCK_SPECS == {"openclaw-source", "openclaw-payload", "signal-payload"}
OPENCLAW_SOURCE_LOCK == "openclaw-source"
OPENCLAW_PAYLOAD_LOCK == "openclaw-payload"
SIGNAL_PAYLOAD_LOCK == "signal-payload"

REQUIRED_DEVELOPER_SYNC_BACKEND == "mutagen"

\* --------------------------------------------------------------- variables
VARIABLES
  vmState,      \* backend: VM -> "absent" | "stopped" | "running"
  markerFile,   \* <state>/{vm}.provisioned: VM -> [exists, data]
  lockDir,      \* ~/.clawbox/locks/<kind>/<sha256(path)>: <<kind, path>> -> directory
  watcherRec,   \* <state>/watchers/{vm}.json: VM -> pid, 0 when there is no record
  watcherAlive, \* pids of live watcher processes: VM -> set of pids
  watcherPc,    \* where each watcher process is in run_vm_watcher_loop: pid -> phase
  sessions,     \* sync sessions by VM: VM -> set of <<kind, host path>>
  activeVms,    \* <state>/mutagen/active_vms.json
  hostFiles,    \* files written into host directories: <<path, file, kind, writer>>
  secretsFile,  \* whether the secrets file exists
  mutagenAvailable, \* whether the sync tool is installed
  logsDir,      \* <state>/logs: file name -> [exists, events], an event being its length
  clock,        \* logical time: CLI invocations and direct calls started so far
  nextPid,      \* next process id handed out by the OS
  proc          \* CLI invocations: Proc -> [pc, stack, cmd, ...locals, did, outcome]

vars == <<vmState, markerFile, lockDir, watcherRec, watcherAlive, watcherPc, sessions, activeVms,
          hostFiles, secretsFile, mutagenAvailable, logsDir, clock, nextPid, proc>>

hostVars == <<vmState, markerFile, lockDir, watcherRec, watcherAlive, watcherPc, sessions, activeVms,
              hostFiles, secretsFile, mutagenAvailable, logsDir, nextPid>>

\* all of them but the event log
quietVars == <<vmState, markerFile, lockDir, watcherRec, watcherAlive, watcherPc, sessions,
               activeVms, hostFiles, secretsFile, mutagenAvailable, nextPid>>

\* ------------------------------------------------- provision marker store
MarkerKeys == {"vm_name", "profile", "playwright", "tailscale", "signal_cli",
               "signal_payload", "sync_backend", "provisioned_at"}

EmptyData == [k \in {} |-> ""]
NoMarkerFile == [exists |-> FALSE, data |-> EmptyData]

BoolText(b) == IF b THEN "true" ELSE "false"

\* dict.get(key, default) on the parsed key: value lines
DataGet(data, key, default) == IF key \in DOMAIN data THEN data[key] ELSE default

\* ProvisionMarker.from_file: None for a missing file or one with no key: value line
MarkerNone == [none |-> TRUE]
MarkerFromFile(file) ==
  IF ~file.exists THEN MarkerNone
  ELSE IF DOMAIN file.data = {} THEN MarkerNone
  ELSE [none |-> FALSE,
        vm_name |-> DataGet(file.data, "vm_name", ""),
        profile |-> DataGet(file.data, "profile", ""),
        playwright |-> DataGet(file.data, "playwright", "false") = "true",
        tailscale |-> DataGet(file.data, "tailscale", "false") = "true",
        signal_cli |-> DataGet(file.data, "signal_cli", "false") = "true",
        signal_payload |-> DataGet(file.data, "signal_payload", "false") = "true",
        sync_backend |-> DataGet(file.data, "sync_backend", ""),
        provisioned_at |-> DataGet(file.data, "provisioned_at", "")]

\* ProvisionMarker.write: a full rewrite of the file with every key
MarkerWrite(vm, profile, playwright, tailscale, signal_cli, signal_payload, now) ==
  [exists |-> TRUE,
   data |-> [k \in MarkerKeys |->
     CASE k = "vm_name" -> vm
       [] k = "profile" -> profile
       [] k = "playwright" -> BoolText(playwright)
       [] k = "tailscale" -> BoolText(tailscale)
       [] k = "signal_cli" -> BoolText(signal_cli)
       [] k = "signal_payload" -> BoolText(signal_payload)
       [] k = "sync_backend" ->
            IF profile = "developer" THEN REQUIRED_DEVELOPER_SYNC_BACKEND ELSE ""
       [] OTHER -> ToString(now)]]

\* ------------------------------------------------------- path lock manager
LockKeys == ALL_LOCK_SPECS \X Paths
NoDir == [exists |-> FALSE, path |-> "", owner |-> "", updated |-> 0]
EmptyDirectory == [exists |-> TRUE, path |-> "", owner |-> "", updated |-> 0]

\* _read_text(lock_dir / "owner_vm"): "" when the file or the directory is missing
ReadOwner(key) == lockDir[key].owner

\* _atomic_write_text into a lock directory: path.parent.mkdir(parents=True,
\* exist_ok=True) brings a removed directory back, then the file is renamed in place
WriteField(dir, field, value) ==
  [(IF dir.exists THEN dir ELSE EmptyDirectory) EXCEPT ![field] = value]

\* shutil.rmtree(lock_dir, ignore_errors=True), first half: unlink the files listed
RmtreeUnlink(dir) == IF dir.exists THEN EmptyDirectory ELSE dir
\* second half: rmdir, which fails (ignored) when a file has appeared meanwhile
RmtreeRmdir(dir) ==
  IF dir.exists /\ dir.path = "" /\ dir.owner = "" /\ dir.updated = 0 THEN NoDir ELSE dir


\* ------------------------------------------------------- sync_events.py
SYNC_EVENT_LOG_FILE == "sync-events.jsonl"
SYNC_EVENT_LOG_ROTATED_FILE == "sync-events.jsonl.1"
LogNames == {SYNC_EVENT_LOG_FILE, SYNC_EVENT_LOG_ROTATED_FILE}

NoLogFile == [exists |-> FALSE, events |-> <<>>]
NoLogs == [name \in LogNames |-> NoLogFile]

RECURSIVE SumLen(_)
SumLen(events) == IF events = <<>> THEN 0 ELSE Head(events) + SumLen(Tail(events))

\* path.stat().st_size
StSize(file) == SumLen(file.events)

\* _maybe_rotate goes on unless the file is missing or smaller than the limit
RotationDue(file, maxBytes) == file.exists /\ ~(StSize(file) < maxBytes)

\* _maybe_rotate: rotated.unlink(missing_ok=True); path.replace(rotated)
MaybeRotate(dir, maxBytes) ==
  IF RotationDue(dir[SYNC_EVENT_LOG_FILE], maxBytes)
  THEN [dir EXCEPT ![SYNC_EVENT_LOG_ROTATED_FILE] = dir[SYNC_EVENT_LOG_FILE],
                   ![SYNC_EVENT_LOG_FILE] = NoLogFile]
  ELSE dir

\* os.open(path, O_APPEND | O_CREAT | O_WRONLY); os.write(fd, encoded)
AppendEncoded(dir, len) ==
  [dir EXCEPT ![SYNC_EVENT_LOG_FILE] =
     [exists |-> TRUE, events |-> Append(dir[SYNC_EVENT_LOG_FILE].events, len)]]

\* where an OSError may end emit_sync_event: nowhere, at mkdir, at path.replace after
\* the rotation target was unlinked, or at os.open after the rotation
EmitOutcomes == {"written", "mkdir_failed", "replace_failed", "open_failed"}

EmitResult(dir, len, maxBytes, outcome) ==
  CASE outcome = "written" -> AppendEncoded(MaybeRotate(dir, maxBytes), len)
    [] outcome = "mkdir_failed" -> dir
    [] outcome = "replace_failed" ->
         IF RotationDue(dir[SYNC_EVENT_LOG_FILE], maxBytes)
         THEN [dir EXCEPT ![SYNC_EVENT_LOG_ROTATED_FILE] = NoLogFile]
         ELSE AppendEncoded(dir, len)
    [] OTHER -> MaybeRotate(dir, maxBytes)

\* the events a command step emits, each written in full
RECURSIVE EmitEvents(_, _)
EmitEvents(dir, n) ==
  IF n = 0 THEN dir
  ELSE EmitEvents(EmitResult(dir, CommandEventLen, MaxLogBytes, "written"), n - 1)

\* ------------------------------------------------------- CLI invocations
NoOpts == [profile |-> "standard", source |-> "", payload |-> "", signal |-> "",
           playwright |-> FALSE, tailscale |-> FALSE, signal_cli |-> FALSE,
           signal_payload |-> FALSE, headless |-> FALSE]

IdleProc ==
  [pc |-> "idle", stack |-> <<>>, cmd |-> "none", vm |-> "", opts |-> NoOpts,
   \* locals of up
   created_vm |-> FALSE, was_running |-> FALSE, reason |-> "",
   launched_headless |-> FALSE, provision_ran |-> FALSE,
   \* locals of launch_vm / provision_vm / _activate_mutagen_sync
   headless |-> FALSE, skip_sync |-> FALSE, act |-> NoOpts, specs |-> <<>>,
   \* locals of _acquire_locks / acquire_path_lock / cleanup
   lockQueue |-> <<>>, ak |-> "", ap |-> "", attempt |-> 0, owner |-> "",
   todo |-> {}, rk |-> <<"", "">>, cuKinds |-> <<>>, wpid |-> 0,
   \* locals of reconcile_vm_watchers
   rcTodo |-> {},
   \* int(time.time()) and os.getpid() of this invocation, in its marker and probe names
   token |-> 0,
   \* observations and history of this invocation
   stopped_ok |-> FALSE, absent_seen |-> FALSE, after_failed_create |-> FALSE,
   did |-> {}, mat |-> {}, outcome |-> "", errOwner |-> "", errFlag |-> "", line |-> "",
   entryState |-> "", entryMarker |-> NoMarkerFile, entryLocks |-> {},
   entrySessions |-> {}, entryRunning |-> {}, entryRecord |-> 0,
   entryWatchers |-> {}, entrySecrets |-> FALSE,
   \* an error text and what _with_virtualization_limit_hint made of it
   message |-> <<>>, hinted |-> <<>>, applied |-> 0,
   \* exit code of the last run of the sync tool in ensure_vm_sessions
   exit |-> 0,
   \* last_statuses of _wait_for_mutagen_sync_ready: the kinds whose marker was seen
   seen |-> {},
   \* the sync lifecycle events this invocation has emitted, in order
   log |-> <<>>]

Idle(p) == proc[p].pc \in {"idle", "done"}

\* a call pushes the label to come back to; a return pops it
Call(r, target, ret) == [r EXCEPT !.pc = target, !.stack = <<ret>> \o r.stack]
Return(r) == [r EXCEPT !.pc = Head(r.stack), !.stack = Tail(r.stack)]
\* an exception that no handler of the command catches ends the invocation
Raise(r, err) == [r EXCEPT !.pc = "done", !.stack = <<>>, !.outcome = err]
Did(r, ev) == [r EXCEPT !.did = r.did \cup {ev}]
\* emit_sync_event(STATE_DIR, vm_name, event=...) by the orchestrator
Emit(r, event) == [r EXCEPT !.log = Append(r.log, event)]

\* ------------------------------------------- locks.py: acquire_path_lock
\* _acquire_locks: the locks of the paths given, source, payload, signal in this order
AcquireLocksNext(p) ==
  /\ proc[p].pc = "al_next"
  /\ LET r == proc[p] IN
       proc' = [proc EXCEPT ![p] =
         IF r.lockQueue = <<>> THEN Return(r)
         ELSE Call([r EXCEPT !.ak = Head(r.lockQueue)[1], !.ap = Head(r.lockQueue)[2],
                             !.attempt = 1, !.lockQueue = Tail(r.lockQueue)],
                   "acq_mkdir", "al_next")]
  /\ UNCHANGED <<hostVars, clock>>

\* lock_dir.mkdir(): creates the directory or fails with FileExistsError
AcqMkdir(p) ==
  /\ proc[p].pc = "acq_mkdir"
  /\ LET r == proc[p]
         key == <<r.ak, r.ap>> IN
       IF ~lockDir[key].exists
       THEN /\ lockDir' = [lockDir EXCEPT ![key] = EmptyDirectory]
            /\ proc' = [proc EXCEPT ![p].pc = "acq_w_path"]
       ELSE /\ lockDir' = lockDir
            /\ proc' = [proc EXCEPT ![p].pc = "acq_read"]
  /\ UNCHANGED <<vmState, markerFile, watcherRec, watcherAlive, watcherPc, sessions, activeVms,
                 hostFiles, secretsFile, mutagenAvailable, logsDir, nextPid, clock>>

\* _write_metadata, one atomic file write at a time
WriteMetaStep(p, at, field, value, next) ==
  /\ proc[p].pc = at
  /\ LET key == <<proc[p].ak, proc[p].ap>> IN
       lockDir' = [lockDir EXCEPT ![key] = WriteField(lockDir[key], field, value)]
  /\ proc' = [proc EXCEPT ![p].pc = next]
  /\ UNCHANGED <<vmState, markerFile, watcherRec, watcherAlive, watcherPc, sessions, activeVms,
                 hostFiles, secretsFile, mutagenAvailable, logsDir, nextPid, clock>>

AcqWritePath(p) == WriteMetaStep(p, "acq_w_path", "path", proc[p].ap, "acq_w_owner")
AcqWriteOwner(p) == WriteMetaStep(p, "acq_w_owner", "owner", proc[p].vm, "acq_w_stamp")
\* owner_host (the constant host name) and updated_at
AcqWriteStamp(p) == WriteMetaStep(p, "acq_w_stamp", "updated", clock, "acq_cl_list")

\* the for loop of acquire_path_lock moving to its next attempt, or running out
NextAttempt(r) ==
  IF r.attempt = max_attempts THEN Raise(r, "lock_contended")
  ELSE [r EXCEPT !.pc = "acq_mkdir", !.attempt = r.attempt + 1]

\* a variant that only ever waits on empty owner metadata
AcqReadBranchOnlyWaits(r, owner) ==
  IF owner = "" THEN NextAttempt(r)
  ELSE IF owner = r.vm THEN [r EXCEPT !.pc = "acq_w_path"]
  ELSE [r EXCEPT !.pc = "acq_owner_running", !.owner = owner]

\* after FileExistsError: read the metadata and branch on owner_vm
AcqReadBranch(r, owner) ==
  IF owner = ""
  THEN IF r.attempt <= empty_owner_waits THEN NextAttempt(r)
       ELSE Call([r EXCEPT !.rk = <<r.ak, r.ap>>], "rm_unlink", "acq_next")
  ELSE IF owner = r.vm THEN [r EXCEPT !.pc = "acq_w_path"]
  ELSE [r EXCEPT !.pc = "acq_owner_running", !.owner = owner]

AcqRead(p) ==
  /\ proc[p].pc = "acq_read"
  /\ proc' = [proc EXCEPT ![p] =
       AcqReadBranch(proc[p], ReadOwner(<<proc[p].ak, proc[p].ap>>))]
  /\ UNCHANGED <<hostVars, clock>>

\* a variant that reclaims the lock of a running owner
OwnerRunningBranchAlwaysReclaims(r, running) ==
  Call([r EXCEPT !.rk = <<r.ak, r.ap>>], "rm_unlink", "acq_next")

\* tart.vm_running(owner_vm): LockError for a running owner, reclaim otherwise
OwnerRunningBranch(r, running) ==
  IF running THEN Raise([r EXCEPT !.errOwner = r.owner], "lock_in_use")
  ELSE Call([r EXCEPT !.rk = <<r.ak, r.ap>>], "rm_unlink", "acq_next")

AcqOwnerRunning(p) ==
  /\ proc[p].pc = "acq_owner_running"
  /\ proc' = [proc EXCEPT ![p] =
       OwnerRunningBranch(proc[p], vmState[proc[p].owner] = "running")]
  /\ UNCHANGED <<hostVars, clock>>

AcqNext(p) ==
  /\ proc[p].pc = "acq_next"
  /\ proc' = [proc EXCEPT ![p] = NextAttempt(proc[p])]
  /\ UNCHANGED <<hostVars, clock>>

\* shutil.rmtree(lock_dir, ignore_errors=True)
RmUnlink(p) ==
  /\ proc[p].pc = "rm_unlink"
  /\ lockDir' = [lockDir EXCEPT ![proc[p].rk] = RmtreeUnlink(lockDir[proc[p].rk])]
  /\ proc' = [proc EXCEPT ![p].pc = "rm_rmdir"]
  /\ UNCHANGED <<vmState, markerFile, watcherRec, watcherAlive, watcherPc, sessions, activeVms,
                 hostFiles, secretsFile, mutagenAvailable, logsDir, nextPid, clock>>

RmRmdir(p) ==
  /\ proc[p].pc = "rm_rmdir"
  /\ lockDir' = [lockDir EXCEPT ![proc[p].rk] = RmtreeRmdir(lockDir[proc[p].rk])]
  /\ proc' = [proc EXCEPT ![p] = Return(proc[p])]
  /\ UNCHANGED <<vmState, markerFile, watcherRec, watcherAlive, watcherPc, sessions, activeVms,
                 hostFiles, secretsFile, mutagenAvailable, logsDir, nextPid, clock>>

\* _cleanup_other_locks_for_vm: lock_root.iterdir() lists the directories, then each
\* one but keep_lock_dir is read and removed when this VM owns it
\* a variant that finds no other directory to clean
OtherLockDirsNone(kind, keep) == {}

OtherLockDirs(kind, keep) == {q \in Paths \ {keep} : lockDir[<<kind, q>>].exists}

AcqCleanupList(p) ==
  /\ proc[p].pc = "acq_cl_list"
  /\ proc' = [proc EXCEPT ![p].pc = "acq_cl_one",
                          ![p].todo = OtherLockDirs(proc[p].ak, proc[p].ap)]
  /\ UNCHANGED <<hostVars, clock>>

CleanupOneBranch(r, q, owner) ==
  IF owner = r.vm
  THEN Call([r EXCEPT !.todo = r.todo \ {q}, !.rk = <<r.ak, q>>], "rm_unlink", "acq_cl_one")
  ELSE [r EXCEPT !.todo = r.todo \ {q}]

AcqCleanupOne(p) ==
  /\ proc[p].pc = "acq_cl_one"
  /\ LET r == proc[p] IN
       IF r.todo = {}
       THEN proc' = [proc EXCEPT ![p] = Return(Did(r, <<"locked", r.ak, r.ap>>))]
       ELSE \E q \in r.todo :
              proc' = [proc EXCEPT ![p] = CleanupOneBranch(r, q, ReadOwner(<<r.ak, q>>))]
  /\ UNCHANGED <<hostVars, clock>>

\* the command returns to the shell
CmdOk(p) ==
  /\ proc[p].pc = "cmd_ok"
  /\ proc' = [proc EXCEPT ![p].pc = "done", ![p].outcome = "ok"]
  /\ UNCHANGED <<hostVars, clock>>

LockSteps(p) ==
  \/ AcquireLocksNext(p) \/ AcqMkdir(p) \/ AcqWritePath(p) \/ AcqWriteOwner(p)
  \/ AcqWriteStamp(p) \/ AcqRead(p) \/ AcqOwnerRunning(p) \/ AcqNext(p)
  \/ RmUnlink(p) \/ RmRmdir(p) \/ AcqCleanupList(p) \/ AcqCleanupOne(p) \/ CmdOk(p)

\* ------------------------------------------------------ history of a command
Ev(name) == <<name, "", "">>

\* ------------------------------------ locks.py: cleanup_locks_for_vm
KindOrder == <<OPENCLAW_SOURCE_LOCK, OPENCLAW_PAYLOAD_LOCK, SIGNAL_PAYLOAD_LOCK>>

CleanupStart(p) ==
  /\ proc[p].pc = "cu_start"
  /\ proc' = [proc EXCEPT ![p].pc = "cu_list", ![p].cuKinds = KindOrder]
  /\ UNCHANGED <<hostVars, clock>>

\* for spec in ALL_LOCK_SPECS: lock_root.iterdir()
CleanupList(p) ==
  /\ proc[p].pc = "cu_list"
  /\ LET r == proc[p] IN
       proc' = [proc EXCEPT ![p] =
         IF r.cuKinds = <<>> THEN Return(Did(r, Ev("locks_cleaned")))
         ELSE [r EXCEPT !.pc = "cu_one", !.ak = Head(r.cuKinds),
                        !.cuKinds = Tail(r.cuKinds),
                        !.todo = {q \in Paths : lockDir[<<Head(r.cuKinds), q>>].exists}]]
  /\ UNCHANGED <<hostVars, clock>>

\* a directory is removed when its owner_vm equals vm_name
CleanupBranch(r, q, owner) ==
  IF owner = r.vm
  THEN Call([r EXCEPT !.todo = r.todo \ {q}, !.rk = <<r.ak, q>>], "rm_unlink", "cu_one")
  ELSE [r EXCEPT !.todo = r.todo \ {q}]

CleanupOne(p) ==
  /\ proc[p].pc = "cu_one"
  /\ LET r == proc[p] IN
       IF r.todo = {}
       THEN proc' = [proc EXCEPT ![p].pc = "cu_list"]
       ELSE \E q \in r.todo :
              proc' = [proc EXCEPT ![p] = CleanupBranch(r, q, ReadOwner(<<r.ak, q>>))]
  /\ UNCHANGED <<hostVars, clock>>

\* ---------------------------------------------- watcher.py: stop_vm_watcher
\* _is_watcher_pid: the pid is live and its command line names _watch-vm and the VM
IsWatcherPid(pid, vm) == pid \in watcherAlive[vm]

\* _read_record: None for a missing file (0) and for an unparseable one (-1)
RecordPid(vm) == IF watcherRec[vm] > 0 THEN watcherRec[vm] ELSE 0

\* _pid_running: os.kill(pid, 0) finds a process
PidRunning(pid) == \E vm \in VMs : pid \in watcherAlive[vm]

\* the SIGTERM handler sets should_exit: a watcher waiting in its loop leaves it, one
\* that is already past its observation carries on to the end
Sigterm(pcs, pid) == IF pcs[pid] = "loop" THEN [pcs EXCEPT ![pid] = "finally"] ELSE pcs

\* a variant that sends no signal
StopWatcherSignalsNothing(pcs, pid) == pcs

\* _signal_watcher_pid(record.pid, signal.SIGTERM)
StopWatcherSignals(pcs, pid) == Sigterm(pcs, pid)

\* record None: unlink and return False; a watcher pid gets SIGTERM and is waited for
StopWatcherSignal(p) ==
  /\ proc[p].pc = "xw"
  /\ LET r == proc[p]
         pid == RecordPid(r.vm) IN
       IF pid # 0 /\ IsWatcherPid(pid, r.vm)
       THEN /\ proc' = [proc EXCEPT ![p] =
                 [Did(r, Ev("sigterm")) EXCEPT !.pc = "xw_wait", !.wpid = pid]]
            /\ watcherPc' = StopWatcherSignals(watcherPc, pid)
            /\ watcherRec' = watcherRec
       ELSE /\ proc' = [proc EXCEPT ![p] = Return(Did(r, Ev("watcher_stopped")))]
            /\ watcherRec' = [watcherRec EXCEPT ![r.vm] = 0]
            /\ watcherPc' = watcherPc
  /\ UNCHANGED <<vmState, markerFile, lockDir, watcherAlive, sessions, activeVms,
                 hostFiles, secretsFile, mutagenAvailable, logsDir, nextPid, clock>>

\* a variant that sends SIGKILL whether or not the process is still there
StopWatcherKillsAlways(running) == TRUE

\* if _pid_running(record.pid) once the deadline has passed: SIGKILL
StopWatcherKills(running) == running

\* the poll loop ends when the process is gone or at the deadline; a process still
\* running then is killed; the record is unlinked
StopWatcherWait(p) ==
  /\ proc[p].pc = "xw_wait"
  /\ LET r == proc[p]
         kill == StopWatcherKills(PidRunning(r.wpid)) IN
       /\ watcherAlive' = IF kill THEN [vm \in VMs |-> watcherAlive[vm] \ {r.wpid}]
                          ELSE watcherAlive
       /\ watcherPc' = IF kill THEN [watcherPc EXCEPT ![r.wpid] = "gone"] ELSE watcherPc
       /\ watcherRec' = [watcherRec EXCEPT ![r.vm] = 0]
       /\ proc' = [proc EXCEPT ![p] =
            Return(Did(IF kill THEN Did(r, Ev("sigkill")) ELSE r, Ev("watcher_stopped")))]
  /\ UNCHANGED <<vmState, markerFile, lockDir, sessions, activeVms,
                 hostFiles, secretsFile, mutagenAvailable, logsDir, nextPid, clock>>

\* --------------------------------------------- watcher.py: start_vm_watcher
\* a live record of this VM's watcher is returned as it is; any other record is unlinked
StartWatcherCheck(p) ==
  /\ proc[p].pc = "sw"
  /\ LET r == proc[p]
         pid == RecordPid(r.vm) IN
       IF pid # 0 /\ PidRunning(pid) /\ IsWatcherPid(pid, r.vm)
       THEN /\ proc' = [proc EXCEPT ![p] =
                 Return([Did(Did(r, Ev("reused")), Ev("watcher_started")) EXCEPT
                           !.wpid = pid])]
            /\ watcherRec' = watcherRec
       ELSE /\ proc' = [proc EXCEPT ![p] =
                 [(IF pid # 0 THEN Did(r, Ev("record_unlinked")) ELSE r) EXCEPT
                    !.pc = "sw_spawn"]]
            /\ watcherRec' = [watcherRec EXCEPT ![r.vm] = IF pid # 0 THEN 0 ELSE @]
  /\ UNCHANGED <<vmState, markerFile, lockDir, watcherAlive, watcherPc, sessions,
                 activeVms, hostFiles, secretsFile, mutagenAvailable, logsDir, nextPid, clock>>

\* subprocess.Popen of the _watch-vm child, or OSError -> WatcherError
StartWatcherSpawn(p) ==
  /\ proc[p].pc = "sw_spawn"
  /\ \/ /\ watcherAlive' = [watcherAlive EXCEPT ![proc[p].vm] = @ \cup {nextPid}]
        /\ watcherPc' = Append(watcherPc, "loop")
        /\ nextPid' = nextPid + 1
        /\ proc' = [proc EXCEPT ![p] =
             [Did(proc[p], Ev("spawn")) EXCEPT !.pc = "sw_poll", !.wpid = nextPid]]
     \/ /\ proc' = [proc EXCEPT ![p] = Raise(proc[p], "watcher_error")]
        /\ UNCHANGED <<watcherAlive, watcherPc, nextPid>>
  /\ UNCHANGED <<vmState, markerFile, lockDir, watcherRec, sessions, activeVms,
                 hostFiles, secretsFile, mutagenAvailable, logsDir, clock>>

\* a variant that returns the pid without writing the record
StartWatcherRecordNone(rec, vm, pid) == rec

\* _write_record(state_dir, WatcherRecord(vm_name, proc.pid, ...))
StartWatcherRecord(rec, vm, pid) == [rec EXCEPT ![vm] = pid]

\* proc.poll() after 0.15 s: WatcherError when the child has exited, else _write_record
StartWatcherPoll(p) ==
  /\ proc[p].pc = "sw_poll"
  /\ LET r == proc[p] IN
       \E exited \in (IF PidRunning(r.wpid) THEN BOOLEAN ELSE {TRUE}) :
         IF exited
         THEN /\ proc' = [proc EXCEPT ![p] = Raise(r, "watcher_error")]
              /\ watcherAlive' = [watcherAlive EXCEPT ![r.vm] = @ \ {r.wpid}]
              /\ watcherPc' = [watcherPc EXCEPT ![r.wpid] = "gone"]
              /\ UNCHANGED watcherRec
         ELSE /\ watcherRec' = StartWatcherRecord(watcherRec, r.vm, r.wpid)
              /\ proc' = [proc EXCEPT ![p] = Return(Did(r, Ev("watcher_started")))]
              /\ UNCHANGED <<watcherAlive, watcherPc>>
  /\ UNCHANGED <<vmState, markerFile, lockDir, sessions,
                 activeVms, hostFiles, secretsFile, mutagenAvailable, logsDir, nextPid, clock>>

\* ------------------------------------------ watcher.py: run_vm_watcher_loop
\* the VM whose watcher the process is
WatcherVm(pid) == CHOOSE vm \in VMs : pid \in watcherAlive[vm]

\* a variant of terminate_vm_sessions that flushes whatever it is asked
TeardownEntryFlushes(flush) == "flush"

\* terminate_vm_sessions(vm_name, flush=flush): the flush comes first when asked for
TeardownEntry(flush) == IF flush THEN "flush" ELSE "teardown"

\* tart.vm_running(vm_name) answers False: the loop goes on to
\* teardown_vm_sync(state_dir, vm_name, flush=False)
WatcherObserve(pid) ==
  /\ PidRunning(pid) /\ watcherPc[pid] = "loop"
  /\ vmState[WatcherVm(pid)] # "running"
  /\ watcherPc' = [watcherPc EXCEPT ![pid] = TeardownEntry(FALSE)]
  /\ UNCHANGED <<vmState, markerFile, lockDir, watcherRec, watcherAlive, sessions,
                 activeVms, hostFiles, secretsFile, mutagenAvailable, logsDir, nextPid, clock,
                 proc>>

\* teardown_vm_sync(flush=False): terminate the sessions, clear the registry entry;
\* a MutagenError from the terminate is swallowed and leaves the registry as it is
WatcherTeardown(pid) ==
  /\ PidRunning(pid) /\ watcherPc[pid] \in {"flush", "teardown"}
  /\ LET vm == WatcherVm(pid) IN
       \E failed \in (IF mutagenAvailable THEN BOOLEAN ELSE {FALSE}) :
         IF watcherPc[pid] = "flush"
         THEN /\ watcherPc' = [watcherPc EXCEPT ![pid] = "teardown"]
              /\ UNCHANGED <<sessions, activeVms>>
         ELSE /\ sessions' = IF failed \/ ~mutagenAvailable THEN sessions
                             ELSE [sessions EXCEPT ![vm] = {}]
              /\ activeVms' = IF failed THEN activeVms ELSE activeVms \ {vm}
              /\ watcherPc' = [watcherPc EXCEPT ![pid] = "cleanup"]
  /\ UNCHANGED <<vmState, markerFile, lockDir, watcherRec, watcherAlive,
                 hostFiles, secretsFile, mutagenAvailable, logsDir, nextPid, clock, proc>>

\* cleanup_locks_for_vm(vm_name): every lock directory whose owner_vm is the VM
WatcherCleanup(pid) ==
  /\ PidRunning(pid) /\ watcherPc[pid] = "cleanup"
  /\ lockDir' = [k \in LockKeys |->
                  IF lockDir[k].exists /\ lockDir[k].owner = WatcherVm(pid)
                  THEN NoDir ELSE lockDir[k]]
  /\ watcherPc' = [watcherPc EXCEPT ![pid] = "finally"]
  /\ UNCHANGED <<vmState, markerFile, watcherRec, watcherAlive, sessions, activeVms,
                 hostFiles, secretsFile, mutagenAvailable, logsDir, nextPid, clock, proc>>

\* a variant that leaves the record where it is
RemoveRecordNever(rec, pid) == rec

\* _remove_record_if_owner: an unreadable record or one with this pid is unlinked
RemoveRecordIfOwner(rec, pid) == IF rec <= 0 \/ rec = pid THEN 0 ELSE rec

\* finally: _remove_record_if_owner(state_dir, vm_name, os.getpid()), then the process
\* ends
WatcherExit(pid) ==
  /\ PidRunning(pid) /\ watcherPc[pid] = "finally"
  /\ LET vm == WatcherVm(pid) IN
       /\ watcherRec' = [watcherRec EXCEPT ![vm] = RemoveRecordIfOwner(@, pid)]
       /\ watcherAlive' = [watcherAlive EXCEPT ![vm] = @ \ {pid}]
  /\ watcherPc' = [watcherPc EXCEPT ![pid] = "gone"]
  /\ UNCHANGED <<vmState, markerFile, lockDir, sessions, activeVms,
                 hostFiles, secretsFile, mutagenAvailable, logsDir, nextPid, clock, proc>>

WatcherSteps ==
  \E pid \in DOMAIN watcherPc :
    \/ WatcherObserve(pid) \/ WatcherTeardown(pid)
    \/ WatcherCleanup(pid) \/ WatcherExit(pid)

\* ---------------------------------------- watcher.py: reconcile_vm_watchers
\* _vm_running: what tart.vm_running answers, or None after a TartError
BackendAnswers(vm) == {IF vmState[vm] = "running" THEN "running" ELSE "stopped", "unknown"}

\* one record of the glob: an unreadable record is unlinked, one with a dead pid is
\* unlinked before the backend is asked, one with a live pid is kept for now
ReconcileRecordBranch(r, vm, pid, alive) ==
  LET q == [r EXCEPT !.vm = vm, !.rcTodo = r.rcTodo \ {vm}] IN
  IF pid = 0 THEN Did(q, <<"rc_pid", vm, "none">>)
  ELSE IF ~alive THEN [Did(q, <<"rc_pid", vm, "dead">>) EXCEPT !.pc = "rc_dead_vm"]
  ELSE [Did(q, <<"rc_pid", vm, "alive">>) EXCEPT !.pc = "rc_alive_vm"]

ReconcileRecord(p) ==
  /\ proc[p].pc = "rc"
  /\ LET r == proc[p] IN
       IF r.rcTodo = {}
       THEN /\ proc' = [proc EXCEPT ![p] = Return(r)]
            /\ watcherRec' = watcherRec
       ELSE \E vm \in r.rcTodo :
              LET pid == RecordPid(vm) IN
                /\ proc' = [proc EXCEPT ![p] =
                     ReconcileRecordBranch(r, vm, pid, PidRunning(pid))]
                /\ watcherRec' = [watcherRec EXCEPT ![vm] =
                     IF pid = 0 \/ ~PidRunning(pid) THEN 0 ELSE @]
  /\ UNCHANGED <<vmState, markerFile, lockDir, watcherAlive, watcherPc, sessions,
                 activeVms, hostFiles, secretsFile, mutagenAvailable, logsDir, nextPid, clock>>

\* a variant that cleans the locks whatever the backend answers
ReconcileDeadBranchAlwaysCleans(r, answer) ==
  [Did(Did(r, <<"rc_vm", r.vm, answer>>), <<"rc_cleanup", r.vm, "">>) EXCEPT
     !.pc = "cu_start", !.stack = <<"rc">> \o r.stack]

\* the pid is dead: cleanup_locks_for_vm only when running is False
ReconcileDeadBranch(r, answer) ==
  LET q == Did(r, <<"rc_vm", r.vm, answer>>) IN
  IF answer = "stopped"
  THEN [Did(q, <<"rc_cleanup", r.vm, "">>) EXCEPT
          !.pc = "cu_start", !.stack = <<"rc">> \o r.stack]
  ELSE [q EXCEPT !.pc = "rc"]

ReconcileDead(p) ==
  /\ proc[p].pc = "rc_dead_vm"
  /\ \E answer \in BackendAnswers(proc[p].vm) :
       proc' = [proc EXCEPT ![p] = ReconcileDeadBranch(proc[p], answer)]
  /\ UNCHANGED <<hostVars, clock>>

\* the pid is alive: stop_vm_watcher and cleanup_locks_for_vm when running is False
ReconcileAliveBranch(r, answer) ==
  LET q == Did(r, <<"rc_vm", r.vm, answer>>) IN
  IF answer = "stopped"
  THEN [Did(Did(q, <<"rc_stop", r.vm, "">>), <<"rc_cleanup", r.vm, "">>) EXCEPT
          !.pc = "xw", !.stack = <<"cu_start", "rc">> \o r.stack]
  ELSE [q EXCEPT !.pc = "rc"]

ReconcileAlive(p) ==
  /\ proc[p].pc = "rc_alive_vm"
  /\ \E answer \in BackendAnswers(proc[p].vm) :
       proc' = [proc EXCEPT ![p] = ReconcileAliveBranch(proc[p], answer)]
  /\ UNCHANGED <<hostVars, clock>>

\* --------------------------------------- mutagen.py: reconcile_vm_sync
\* active_vms(state_dir) is sorted: the loop takes the names in this order
FirstVm(names) == IF "clawbox-1" \in names THEN "clawbox-1" ELSE "clawbox-2"

\* a variant that tears down what the backend could not be asked about
ReconcileSyncBranchOnUnknown(r, vm, answer) ==
  LET q == [Did(r, <<"rs_answer", vm, answer>>) EXCEPT !.vm = vm, !.rcTodo = r.rcTodo \ {vm}] IN
    IF answer # "running" THEN [q EXCEPT !.pc = "rs_td"] ELSE q

\* tart.vm_running(vm_name): TartError -> continue; not running -> teardown_vm_sync
ReconcileSyncBranch(r, vm, answer) ==
  LET q == [Did(r, <<"rs_answer", vm, answer>>) EXCEPT !.vm = vm, !.rcTodo = r.rcTodo \ {vm}] IN
    IF answer = "stopped" THEN [q EXCEPT !.pc = "rs_td"] ELSE q

ReconcileSync(p) ==
  /\ proc[p].pc = "rs"
  /\ LET r == proc[p] IN
       IF r.rcTodo = {} THEN proc' = [proc EXCEPT ![p] = Return(r)]
       ELSE \E answer \in BackendAnswers(FirstVm(r.rcTodo)) :
              proc' = [proc EXCEPT ![p] = ReconcileSyncBranch(r, FirstVm(r.rcTodo), answer)]
  /\ UNCHANGED <<hostVars, clock>>

\* teardown_vm_sync(state_dir, vm_name, flush=False): terminate_vm_sessions, then
\* clear_vm_active; a MutagenError of the terminate leaves reconcile_vm_sync at once
ReconcileSyncTeardown(p) ==
  /\ proc[p].pc = "rs_td"
  /\ LET r == proc[p] IN
       \E failed \in (IF mutagenAvailable THEN BOOLEAN ELSE {FALSE}) :
         IF failed
         THEN /\ proc' = [proc EXCEPT ![p] = Raise(r, "sync_error")]
              /\ UNCHANGED <<sessions, activeVms>>
         ELSE /\ sessions' = IF mutagenAvailable THEN [sessions EXCEPT ![r.vm] = {}]
                             ELSE sessions
              /\ activeVms' = activeVms \ {r.vm}
              /\ proc' = [proc EXCEPT ![p] =
                   [Did(r, <<"rs_teardown", r.vm, TeardownEntry(FALSE)>>) EXCEPT !.pc = "rs"]]
  /\ UNCHANGED <<vmState, markerFile, lockDir, watcherRec, watcherAlive, watcherPc,
                 hostFiles, secretsFile, mutagenAvailable, logsDir, nextPid, clock>>

\* ------------------------- orchestrator.py: _deactivate_mutagen_sync
\* teardown_start, then terminate_vm_sessions, which does nothing without the sync tool
TeardownStart(p) ==
  /\ proc[p].pc \in {"td_flush_entry", "td_noflush_entry"}
  /\ LET r == proc[p]
         flush == r.pc = "td_flush_entry" IN
       proc' = [proc EXCEPT ![p] =
         [Emit(Did(r, <<"teardown", BoolText(flush), "">>), "teardown_start") EXCEPT
            !.pc = IF ~mutagenAvailable THEN "td_clear"
                   ELSE IF flush THEN "td_flush" ELSE "td_term"]]
  /\ logsDir' = EmitEvents(logsDir, 1)
  /\ UNCHANGED <<quietVars, clock>>

\* mutagen sync flush --label-selector clawbox.vm=<vm> (check=False)
TeardownFlush(p) ==
  /\ proc[p].pc = "td_flush"
  /\ proc' = [proc EXCEPT ![p] = [Did(proc[p], Ev("sync_flush")) EXCEPT !.pc = "td_term"]]
  /\ UNCHANGED <<hostVars, clock>>

\* mutagen sync terminate --label-selector clawbox.vm=<vm> (check=False)
TeardownTerminate(p) ==
  /\ proc[p].pc = "td_term"
  /\ sessions' = [sessions EXCEPT ![proc[p].vm] = {}]
  /\ proc' = [proc EXCEPT ![p] =
       [Did(proc[p], Ev("sync_terminate")) EXCEPT !.pc = "td_clear"]]
  /\ UNCHANGED <<vmState, markerFile, lockDir, watcherRec, watcherAlive, watcherPc, activeVms,
                 hostFiles, secretsFile, mutagenAvailable, logsDir, nextPid, clock>>

\* the sync tool cannot be run: MutagenError, teardown_error, UserFacingError
TeardownToolFails(p) ==
  /\ proc[p].pc \in {"td_flush", "td_term"}
  /\ proc' = [proc EXCEPT ![p] = Raise(Emit(proc[p], "teardown_error"), "sync_error")]
  /\ logsDir' = EmitEvents(logsDir, 1)
  /\ UNCHANGED <<quietVars, clock>>

\* clear_vm_active, remove_mutagen_ssh_alias, teardown_ok
TeardownClear(p) ==
  /\ proc[p].pc = "td_clear"
  /\ activeVms' = activeVms \ {proc[p].vm}
  /\ proc' = [proc EXCEPT ![p] = Return(Emit(proc[p], "teardown_ok"))]
  /\ logsDir' = EmitEvents(logsDir, 1)
  /\ UNCHANGED <<vmState, markerFile, lockDir, watcherRec, watcherAlive, watcherPc, sessions,
                 hostFiles, secretsFile, mutagenAvailable, nextPid, clock>>

\* ------------------------------ orchestrator.py: _stop_vm_and_wait
\* a variant that issues the stop before the sync teardown
StopVmChainStopFirst == <<"sv_stop", "td_flush_entry">>

\* stop_vm_watcher, _deactivate_mutagen_sync(flush=True), then this: tart.stop
StopVmChain == <<"td_flush_entry", "sv_stop">>

\* tart stop is best effort (check=False): the VM stops or it does not
StopVmIssue(p) ==
  /\ proc[p].pc = "sv_stop"
  /\ \E effective \in BOOLEAN :
       vmState' = [vmState EXCEPT ![proc[p].vm] =
                     IF effective /\ @ = "running" THEN "stopped" ELSE @]
  /\ proc' = [proc EXCEPT ![p] = [Did(proc[p], Ev("stop")) EXCEPT !.pc = "sv_wait"]]
  /\ UNCHANGED <<markerFile, lockDir, watcherRec, watcherAlive, watcherPc, sessions, activeVms,
                 hostFiles, secretsFile, mutagenAvailable, logsDir, nextPid, clock>>

\* the poll loop: True once the backend reports the VM not running, False on timeout
StopVmWait(p) ==
  /\ proc[p].pc = "sv_wait"
  /\ proc' = [proc EXCEPT ![p] =
       Return([proc[p] EXCEPT !.stopped_ok = vmState[proc[p].vm] # "running"])]
  /\ UNCHANGED <<hostVars, clock>>

\* ------------------------------------------- orchestrator.py: down_vm
\* a variant of the tail that leaves the watcher alone
DownTailKeepsWatcher(r, last) ==
  [r EXCEPT !.pc = "td_noflush_entry", !.stack = <<"cu_start", last>> \o r.stack]

\* a variant whose tail also unlinks the provision marker, as delete_vm does
DownTailRemovesMarker(r, last) ==
  [r EXCEPT !.pc = "xw",
            !.stack = <<"td_noflush_entry", "del_marker", "cu_start", last>> \o r.stack]

\* the tail shared by the branches: stop_vm_watcher, teardown without flush, cleanup
DownTail(r, last) ==
  [r EXCEPT !.pc = "xw", !.stack = <<"td_noflush_entry", "cu_start", last>> \o r.stack]

DownBranch(r, state) ==
  IF state = "absent" THEN DownTail(r, "cmd_ok")
  ELSE IF state = "running"
  THEN [r EXCEPT !.pc = "xw", !.stack = StopVmChain \o <<"down_stopped">> \o r.stack]
  ELSE DownTail(r, "cmd_ok")

DownCheck(p) ==
  /\ proc[p].pc = "down"
  /\ proc' = [proc EXCEPT ![p] = DownBranch(proc[p], vmState[proc[p].vm])]
  /\ UNCHANGED <<hostVars, clock>>

\* a variant that returns once the VM has stopped, without the tail
DownStoppedBranchNoTail(r) ==
  IF r.stopped_ok THEN [r EXCEPT !.pc = "cmd_ok"] ELSE Raise(r, "timeout_stop")

\* if not _stop_vm_and_wait(...): raise; else on to the tail
DownStoppedBranch(r) ==
  IF r.stopped_ok THEN DownTail(r, "cmd_ok") ELSE Raise(r, "timeout_stop")

DownStopped(p) ==
  /\ proc[p].pc = "down_stopped"
  /\ proc' = [proc EXCEPT ![p] = DownStoppedBranch(proc[p])]
  /\ UNCHANGED <<hostVars, clock>>

\* ----------------------------------------- orchestrator.py: delete_vm
DeleteMissingTail(r) ==
  [r EXCEPT !.pc = "xw",
            !.stack = <<"td_noflush_entry", "del_marker", "cu_start", "cmd_ok">> \o r.stack]
\* a variant of the tail that leaves the lock directories alone
DeleteTailKeepsLocks(r) ==
  [r EXCEPT !.pc = "del_marker",
            !.stack = <<"xw", "td_noflush_entry", "cmd_ok">> \o r.stack]

\* marker_file.unlink, stop_vm_watcher, teardown without flush, cleanup_locks_for_vm
DeleteTail(r) ==
  [r EXCEPT !.pc = "del_marker",
            !.stack = <<"xw", "td_noflush_entry", "cu_start", "cmd_ok">> \o r.stack]

DeleteBranch(r, state) ==
  IF state = "absent" THEN DeleteMissingTail([r EXCEPT !.absent_seen = TRUE])
  ELSE IF state = "running"
  THEN [r EXCEPT !.pc = "xw", !.stack = StopVmChain \o <<"del_stopped">> \o r.stack]
  ELSE [r EXCEPT !.pc = "del_delete"]

DeleteCheck(p) ==
  /\ proc[p].pc = "delete"
  /\ proc' = [proc EXCEPT ![p] = DeleteBranch(proc[p], vmState[proc[p].vm])]
  /\ UNCHANGED <<hostVars, clock>>

DeleteStoppedBranch(r) ==
  IF r.stopped_ok THEN [r EXCEPT !.pc = "del_delete"] ELSE Raise(r, "timeout_stop")

DeleteStopped(p) ==
  /\ proc[p].pc = "del_stopped"
  /\ proc' = [proc EXCEPT ![p] = DeleteStoppedBranch(proc[p])]
  /\ UNCHANGED <<hostVars, clock>>

\* tart delete is best effort (check=False)
DeleteIssue(p) ==
  /\ proc[p].pc = "del_delete"
  /\ \E effective \in BOOLEAN :
       vmState' = [vmState EXCEPT ![proc[p].vm] = IF effective THEN "absent" ELSE @]
  /\ proc' = [proc EXCEPT ![p] = [Did(proc[p], Ev("delete")) EXCEPT !.pc = "del_wait"]]
  /\ UNCHANGED <<markerFile, lockDir, watcherRec, watcherAlive, watcherPc, sessions, activeVms,
                 hostFiles, secretsFile, mutagenAvailable, logsDir, nextPid, clock>>

\* a variant that goes on to the marker whatever the backend reports
DeleteWaitBranchIgnoresBackend(r, absent) == DeleteTail([r EXCEPT !.absent_seen = TRUE])

\* _wait_for_vm_absent: error while the VM still exists, else on to the marker
DeleteWaitBranch(r, absent) ==
  IF absent THEN DeleteTail([r EXCEPT !.absent_seen = TRUE])
  ELSE Raise(r, "still_exists")

DeleteWait(p) ==
  /\ proc[p].pc = "del_wait"
  /\ proc' = [proc EXCEPT ![p] = DeleteWaitBranch(proc[p], vmState[proc[p].vm] = "absent")]
  /\ UNCHANGED <<hostVars, clock>>

\* marker_file.unlink(missing_ok=True)
DeleteMarker(p) ==
  /\ proc[p].pc = "del_marker"
  /\ markerFile' = [markerFile EXCEPT ![proc[p].vm] = NoMarkerFile]
  /\ proc' = [proc EXCEPT ![p] = Return(Did(proc[p], Ev("marker_remove")))]
  /\ UNCHANGED <<vmState, lockDir, watcherRec, watcherAlive, watcherPc, sessions, activeVms,
                 hostFiles, secretsFile, mutagenAvailable, logsDir, nextPid, clock>>

\* ------------------------------------------- orchestrator.py: validation
\* _validate_profile
ValidateProfile(profile) ==
  IF profile \in {"standard", "developer"} THEN "" ELSE "invalid_profile"

\* _validate_profile_mount_args
ValidateProfileMountArgs(o) ==
  IF o.profile = "developer"
  THEN IF o.source = "" \/ o.payload = "" THEN "developer_requires_paths" ELSE ""
  ELSE IF o.source # "" \/ o.payload # "" THEN "paths_only_in_developer"
  ELSE IF o.signal # "" THEN "signal_only_in_developer"
  ELSE ""

\* _validate_feature_flags; every optional service allows both profiles
ValidateFeatureFlags(profile, enable_signal_cli, enable_signal_payload) ==
  IF enable_signal_payload /\ profile # "developer" THEN "signal_payload_only_in_developer"
  ELSE IF enable_signal_payload /\ ~enable_signal_cli THEN "requires_signal_cli"
  ELSE ""

\* a variant that names the flag of provision in every message
PayloadFlagOfProvision(signal_payload) == "--enable-signal-payload"

\* payload_flag, the option the message "<flag> requires --add-signal-cli-provisioning"
\* names
PayloadFlag(signal_payload) ==
  IF signal_payload # "" THEN "--signal-cli-payload" ELSE "--enable-signal-payload"

FirstError(errs) ==
  IF \E i \in 1..Len(errs) : errs[i] # ""
  THEN errs[CHOOSE i \in 1..Len(errs) : errs[i] # "" /\ \A j \in 1..(i - 1) : errs[j] = ""]
  ELSE ""

\* the checks at the head of up, in their order (host directories all exist)
UpValidation(o) ==
  FirstError(<<ValidateProfile(o.profile), ValidateProfileMountArgs(o),
               ValidateFeatureFlags(o.profile, o.signal_cli, o.signal # "")>>)

\* the checks at the head of launch_vm
LaunchValidation(o) ==
  FirstError(<<ValidateProfile(o.profile), ValidateProfileMountArgs(o)>>)

\* the checks at the head of provision_vm
ProvisionValidation(o) ==
  FirstError(<<ValidateProfile(o.profile),
               ValidateFeatureFlags(o.profile, o.signal_cli, o.signal_payload)>>)

\* ---------------------- materialising state on a host directory
Held(vm, kind, path) == lockDir[<<kind, path>>].exists /\ lockDir[<<kind, path>>].owner = vm
\* remember the directory and whether the VM held its lock when the state was written
Mat(r, kind, path) == [r EXCEPT !.mat = @ \cup {<<kind, path, Held(r.vm, kind, path)>>}]

\* _build_sync_specs over SYNC_PATH_BINDINGS: <<kind, host path>> of each path given
BuildSyncSpecs(source, payload, signal) ==
  <<<<OPENCLAW_SOURCE_LOCK, source>>, <<OPENCLAW_PAYLOAD_LOCK, payload>>>>
    \o (IF signal # "" THEN <<<<SIGNAL_PAYLOAD_LOCK, signal>>>> ELSE <<>>)

SeqToSet(q) == {q[i] : i \in 1..Len(q)}

\* ----------------------------- orchestrator.py: _activate_mutagen_sync
\* except Exception: activate_error is emitted before the exception goes on
ActivateErrorEvents(r) == IF r.pc = "done" THEN 1 ELSE 0

\* a variant whose handler reports only the failures of the sync tool
ActivateExceptMutagenOnly(r) ==
  IF r.pc = "done" /\ r.outcome = "sync_error" THEN Emit(r, "activate_error") ELSE r

\* except Exception as exc: emit activate_error, then re-raise
ActivateExcept(r) == IF r.pc = "done" THEN Emit(r, "activate_error") ELSE r

\* activate_start, mutagen_available, _build_sync_specs, the VM must be running
ActivateStartBranch(r, available, running) ==
  IF ~available THEN Raise(r, "mutagen_missing")
  ELSE IF r.act.source = "" \/ r.act.payload = "" THEN Raise(r, "missing_sync_path")
  ELSE IF ~running THEN Raise(r, "not_running_for_sync")
  ELSE [r EXCEPT !.pc = "act_prep",
                 !.specs = BuildSyncSpecs(r.act.source, r.act.payload, r.act.signal)]

ActivateStart(p) ==
  /\ proc[p].pc = "act_start"
  /\ proc' = [proc EXCEPT ![p] =
       ActivateExcept(ActivateStartBranch(
         Emit(Did(proc[p], Ev("activate_start")), "activate_start"), mutagenAvailable,
         vmState[proc[p].vm] = "running"))]
  /\ logsDir' = EmitEvents(logsDir, 1 + ActivateErrorEvents(proc'[p]))
  /\ UNCHANGED <<quietVars, clock>>

\* _resolve_vm_ip, _resolve_mutagen_auth, authorized key, guest directories, ssh alias
ActivatePrepare(p) ==
  /\ proc[p].pc = "act_prep"
  /\ \/ proc' = [proc EXCEPT ![p].pc = "act_sess"]
     \/ proc' = [proc EXCEPT ![p] = ActivateExcept(Raise(proc[p], "sync_prepare_failed"))]
  /\ logsDir' = EmitEvents(logsDir, ActivateErrorEvents(proc'[p]))
  /\ UNCHANGED <<quietVars, clock>>

\* ensure_vm_sessions, one spec at a time. The exit codes of the sync tool: a terminate
\* that finds a session of the name takes effect and exits 0, one that finds none exits
\* with either code; create and flush exit with either code
TerminateExits(found) == IF found THEN {0} ELSE {0, 1}
SESSION_MODE == "two-way-resolved"

\* a variant that checks the exit code of the terminate as well
EnsureTerminateBranchChecked(r, kind, exit) ==
  IF exit # 0 THEN Raise([r EXCEPT !.exit = exit], "sync_error")
  ELSE [Did(r, <<"sync_terminate", kind, "">>) EXCEPT !.pc = "act_create", !.exit = exit]

\* _run_mutagen(["sync", "terminate", session_name], check=False)
EnsureTerminateBranch(r, kind, exit) ==
  [Did(r, <<"sync_terminate", kind, "">>) EXCEPT !.pc = "act_create", !.exit = exit]

ActivateSession(p) ==
  /\ proc[p].pc = "act_sess"
  /\ proc[p].specs # <<>>
  /\ LET r == proc[p]
         spec == Head(r.specs)
         others == {x \in sessions[r.vm] : x[1] # spec[1]} IN
       /\ sessions' = [sessions EXCEPT ![r.vm] = others]
       /\ \E exit \in TerminateExits(sessions[r.vm] # others) :
            proc' = [proc EXCEPT ![p] = ActivateExcept(EnsureTerminateBranch(r, spec[1], exit))]
  /\ logsDir' = EmitEvents(logsDir, ActivateErrorEvents(proc'[p]))
  /\ UNCHANGED <<vmState, markerFile, lockDir, watcherRec, watcherAlive, watcherPc, activeVms,
                 hostFiles, secretsFile, mutagenAvailable, nextPid, clock>>

\* _run_mutagen(["sync", "create", "--name", session_name, "--mode", "two-way-resolved",
\* ...], check=True)
EnsureCreateBranch(r, spec, exit) ==
  IF exit # 0 THEN Raise([r EXCEPT !.exit = exit], "sync_error")
  ELSE [Mat(Did(r, <<"sync_create", spec[1], SESSION_MODE>>), spec[1], spec[2]) EXCEPT
          !.pc = "act_sess", !.specs = Tail(r.specs), !.exit = exit]

ActivateCreate(p) ==
  /\ proc[p].pc = "act_create"
  /\ LET r == proc[p]
         spec == Head(r.specs) IN
       \E exit \in {0, 1} :
         /\ proc' = [proc EXCEPT ![p] = ActivateExcept(EnsureCreateBranch(r, spec, exit))]
         /\ sessions' = [sessions EXCEPT ![r.vm] = IF exit = 0 THEN @ \cup {spec} ELSE @]
  /\ logsDir' = EmitEvents(logsDir, ActivateErrorEvents(proc'[p]))
  /\ UNCHANGED <<vmState, markerFile, lockDir, watcherRec, watcherAlive, watcherPc, activeVms,
                 hostFiles, secretsFile, mutagenAvailable, nextPid, clock>>

ActSpecs(r) == BuildSyncSpecs(r.act.source, r.act.payload, r.act.signal)

\* if session_names: the one labelled flush that ends ensure_vm_sessions (check=True)
EnsureFlushBranch(r, exit) ==
  IF exit # 0 THEN Raise([r EXCEPT !.exit = exit], "sync_error")
  ELSE [Did(r, Ev("sync_flush_label")) EXCEPT !.pc = "act_ready", !.specs = ActSpecs(r),
                                               !.exit = exit]

ActivateFlush(p) ==
  /\ proc[p].pc = "act_sess"
  /\ proc[p].specs = <<>>
  /\ \E exit \in {0, 1} :
       proc' = [proc EXCEPT ![p] = ActivateExcept(EnsureFlushBranch(proc[p], exit))]
  /\ logsDir' = EmitEvents(logsDir, ActivateErrorEvents(proc'[p]))
  /\ UNCHANGED <<quietVars, clock>>

\* .clawbox-sync-ready-{kind}-{marker_token} in the host path of a spec
ReadyMarker(spec, token) == <<spec[2], "sync-ready", spec[1], token>>
ReadyMarkers(r) == {ReadyMarker(spec, r.token) : spec \in SeqToSet(ActSpecs(r))}

\* _wait_for_mutagen_sync_ready, the loop before the try: one readiness marker is
\* written into the host path of each spec; an OSError becomes a UserFacingError
ActivateReadyWrite(p) ==
  /\ proc[p].pc = "act_ready"
  /\ LET r == proc[p] IN
       IF r.specs = <<>>
       THEN /\ proc' = [proc EXCEPT ![p].pc = "act_poll"]
            /\ hostFiles' = hostFiles
       ELSE LET spec == Head(r.specs) IN
              \/ /\ hostFiles' = hostFiles \cup {ReadyMarker(spec, r.token)}
                 /\ proc' = [proc EXCEPT ![p] =
                      [Mat(r, spec[1], spec[2]) EXCEPT !.specs = Tail(r.specs)]]
              \/ /\ hostFiles' = hostFiles
                 /\ proc' = [proc EXCEPT ![p] = ActivateExcept(Raise(r, "marker_write_failed"))]
  /\ logsDir' = EmitEvents(logsDir, ActivateErrorEvents(proc'[p]))
  /\ UNCHANGED <<vmState, markerFile, lockDir, watcherRec, watcherAlive, watcherPc, sessions,
                 activeVms, secretsFile, mutagenAvailable, nextPid, clock>>

\* SessionSpec.ready_required as _build_sync_specs sets it, from
\* SyncPathBinding.ready_required: no binding of SYNC_PATH_BINDINGS gives the field, so
\* it has its default for every kind (the signal-payload binding gives required=False,
\* which decides only whether a missing host path is an error)
ReadyRequired(kind) == TRUE

\* the paths the wait needs to see
RequiredKinds(specs) == {spec[1] : spec \in {x \in SeqToSet(specs) : ReadyRequired(x[1])}}

\* the poll loop: visible are the kinds whose marker the last probe reported ok; the
\* wait returns when every required path is among them and times out otherwise
ReadyPollBranch(r, visible, raises) ==
  IF raises THEN Raise(r, "probe_error")
  ELSE IF RequiredKinds(ActSpecs(r)) \subseteq visible
       THEN [r EXCEPT !.pc = "act_mark", !.seen = visible]
       ELSE Raise([r EXCEPT !.seen = visible], "sync_not_ready")

\* the try and its finally: the markers are unlinked when the required paths are seen,
\* when the wait times out and when a probe raises
ActivateReadyPoll(p) ==
  /\ proc[p].pc = "act_poll"
  /\ hostFiles' = hostFiles \ ReadyMarkers(proc[p])
  /\ \E visible \in SUBSET {spec[1] : spec \in SeqToSet(ActSpecs(proc[p]))},
        raises \in BOOLEAN :
       proc' = [proc EXCEPT ![p] = ActivateExcept(ReadyPollBranch(proc[p], visible, raises))]
  /\ logsDir' = EmitEvents(logsDir, ActivateErrorEvents(proc'[p]))
  /\ UNCHANGED <<vmState, markerFile, lockDir, watcherRec, watcherAlive, watcherPc, sessions,
                 activeVms, secretsFile, mutagenAvailable, nextPid, clock>>

\* mark_vm_active and activate_ok
ActivateMark(p) ==
  /\ proc[p].pc = "act_mark"
  /\ activeVms' = activeVms \cup {proc[p].vm}
  /\ proc' = [proc EXCEPT ![p] = Return(Emit(Did(proc[p], Ev("activate_ok")), "activate_ok"))]
  /\ logsDir' = EmitEvents(logsDir, 1)
  /\ UNCHANGED <<vmState, markerFile, lockDir, watcherRec, watcherAlive, watcherPc, sessions,
                 hostFiles, secretsFile, mutagenAvailable, nextPid, clock>>

\* ------------------------------------------ orchestrator.py: create_vm
CreateVm(p) ==
  /\ proc[p].pc = "create"
  /\ LET r == proc[p] IN
       IF vmState[r.vm] # "absent"
       THEN /\ proc' = [proc EXCEPT ![p] = Raise(r, "already_exists")]
            /\ vmState' = vmState
       ELSE \/ /\ vmState' = [vmState EXCEPT ![r.vm] = "stopped"]
               /\ proc' = [proc EXCEPT ![p] = Return(Did(r, Ev("create")))]
            \/ /\ vmState' = vmState
               /\ proc' = [proc EXCEPT ![p] = Raise(Did(r, Ev("create")), "create_failed")]
  /\ UNCHANGED <<markerFile, lockDir, watcherRec, watcherAlive, watcherPc, sessions, activeVms,
                 hostFiles, secretsFile, mutagenAvailable, logsDir, nextPid, clock>>

\* ------------------------------------------ orchestrator.py: launch_vm
\* the locks _acquire_locks takes for the paths given
LockQueueFor(o) ==
  (IF o.source # "" THEN <<<<OPENCLAW_SOURCE_LOCK, o.source>>>> ELSE <<>>)
  \o (IF o.payload # "" THEN <<<<OPENCLAW_PAYLOAD_LOCK, o.payload>>>> ELSE <<>>)
  \o (IF o.signal # "" THEN <<<<SIGNAL_PAYLOAD_LOCK, o.signal>>>> ELSE <<>>)

\* launch_vm up to the branch on tart.vm_running
LaunchBranch(r, state, available) ==
  IF LaunchValidation(r.opts) # "" THEN Raise(r, LaunchValidation(r.opts))
  ELSE IF state = "absent" THEN Raise(r, "vm_missing")
  ELSE IF r.opts.profile = "developer" /\ ~available THEN Raise(r, "mutagen_missing")
  ELSE IF state = "running"
  THEN IF r.opts.profile = "developer"
       THEN [Did(r, Ev("already_running")) EXCEPT !.pc = "lnr_dirs"]
       ELSE [Did(r, Ev("already_running")) EXCEPT !.pc = "lnr_watch"]
  ELSE [r EXCEPT !.pc = "ln_dirs"]

LaunchCheck(p) ==
  /\ proc[p].pc = "launch"
  /\ proc' = [proc EXCEPT ![p] =
       LaunchBranch(Did(proc[p], Ev("launch_vm")), vmState[proc[p].vm], mutagenAvailable)]
  /\ UNCHANGED <<hostVars, clock>>

\* a variant of the already-running branch that goes on without the locks
LaunchDirsBranchSkipsLocks(r, ok) ==
  IF ~ok THEN Raise(r, "dir_missing")
  ELSE IF r.pc = "lnr_dirs" THEN [Did(r, Ev("validate_dirs")) EXCEPT !.pc = "lnr_marker"]
  ELSE Call([Did(r, Ev("validate_dirs")) EXCEPT !.lockQueue = LockQueueFor(r.opts)],
            "al_next", "ln_marker")

\* _validate_dirs([source, payload, signal]), then _acquire_locks
LaunchDirsBranch(r, ok) ==
  IF ~ok THEN Raise(r, "dir_missing")
  ELSE Call([Did(r, Ev("validate_dirs")) EXCEPT !.lockQueue = LockQueueFor(r.opts)],
            "al_next", IF r.pc = "lnr_dirs" THEN "lnr_marker" ELSE "ln_marker")

\* a path given that is not a directory ends the launch; empty paths are skipped
LaunchValidateDirs(p) ==
  /\ proc[p].pc \in {"ln_dirs", "lnr_dirs"}
  /\ \E ok \in (IF LockQueueFor(proc[p].opts) = <<>> THEN {TRUE} ELSE BOOLEAN) :
       proc' = [proc EXCEPT ![p] = LaunchDirsBranch(proc[p], ok)]
  /\ UNCHANGED <<hostVars, clock>>

SignalMarkerFile(path) == <<path, "signal-marker", SIGNAL_PAYLOAD_LOCK, 0>>

\* _ensure_signal_payload_host_marker when a signal payload path is given
LaunchSignalMarker(p) ==
  /\ proc[p].pc \in {"ln_marker", "lnr_marker"}
  /\ LET r == proc[p]
         next == IF r.pc = "ln_marker" THEN "ln_run" ELSE "lnr_watch" IN
       IF r.opts.signal # ""
       THEN /\ hostFiles' = hostFiles \cup {SignalMarkerFile(r.opts.signal)}
            /\ proc' = [proc EXCEPT ![p] =
                 [Mat(Did(r, Ev("signal_marker")), SIGNAL_PAYLOAD_LOCK, r.opts.signal)
                    EXCEPT !.pc = next]]
       ELSE /\ hostFiles' = hostFiles
            /\ proc' = [proc EXCEPT ![p].pc = next]
  /\ UNCHANGED <<vmState, markerFile, lockDir, watcherRec, watcherAlive, watcherPc, sessions,
                 activeVms, secretsFile, mutagenAvailable, logsDir, nextPid, clock>>

\* tart.run_in_background: TartError or an early exit of tart run, or the VM boots
LaunchRun(p) ==
  /\ proc[p].pc = "ln_run"
  /\ LET r == Did(proc[p], <<"run", BoolText(proc[p].headless), "">>) IN
       \/ /\ vmState' = [vmState EXCEPT ![r.vm] = "running"]
          /\ proc' = [proc EXCEPT ![p] = [r EXCEPT !.pc = "ln_wait"]]
       \/ /\ vmState' = vmState
          /\ proc' = [proc EXCEPT ![p] = Raise(r, "launch_failed")]
  /\ UNCHANGED <<markerFile, lockDir, watcherRec, watcherAlive, watcherPc, sessions, activeVms,
                 hostFiles, secretsFile, mutagenAvailable, logsDir, nextPid, clock>>

\* wait_for_vm_running(tart, vm_name, timeout_seconds=30), then start_vm_watcher
LaunchWaitBranch(r, running) ==
  IF running THEN Call(r, "sw", "ln_sync") ELSE Raise(r, "launch_timeout")

LaunchWait(p) ==
  /\ proc[p].pc = "ln_wait"
  /\ proc' = [proc EXCEPT ![p] = LaunchWaitBranch(proc[p], vmState[proc[p].vm] = "running")]
  /\ UNCHANGED <<hostVars, clock>>

\* the already-running branch: start_vm_watcher
LaunchRunningWatch(p) ==
  /\ proc[p].pc = "lnr_watch"
  /\ proc' = [proc EXCEPT ![p] = Call(proc[p], "sw", "ln_sync")]
  /\ UNCHANGED <<hostVars, clock>>

\* _activate_mutagen_sync with the paths of the arguments, for developer profile
LaunchSyncBranch(r) ==
  IF r.opts.profile = "developer"
  THEN [r EXCEPT !.pc = "act_start", !.act = r.opts]
  ELSE Return(r)

LaunchSync(p) ==
  /\ proc[p].pc = "ln_sync"
  /\ proc' = [proc EXCEPT ![p] = LaunchSyncBranch(proc[p])]
  /\ UNCHANGED <<hostVars, clock>>

\* --------------------------------------- orchestrator.py: provision_vm
\* locks.py locked_path_for_vm: the path of the lock directory of the kind that the
\* VM owns, "" when it owns none
LockedPathForVm(kind, vm) ==
  IF \E path \in Paths : Held(vm, kind, path)
  THEN CHOOSE path \in Paths : Held(vm, kind, path)
  ELSE ""

\* validation, ensure_secrets_file(create_if_missing=False), _require_vm_exists,
\* _require_vm_running
ProvisionBranch(r, secrets, state) ==
  IF ProvisionValidation(r.opts) = "requires_signal_cli"
  THEN Raise([r EXCEPT !.errFlag = PayloadFlag("")], "requires_signal_cli")
  ELSE IF ProvisionValidation(r.opts) # "" THEN Raise(r, ProvisionValidation(r.opts))
  ELSE IF ~secrets THEN Raise(r, "secrets_missing")
  ELSE IF state = "absent" THEN Raise(r, "vm_missing")
  ELSE IF state # "running" THEN Raise(r, "vm_not_running")
  ELSE [r EXCEPT !.pc = "pv_ip"]

ProvisionCheck(p) ==
  /\ proc[p].pc = "provision"
  /\ proc' = [proc EXCEPT ![p] =
       ProvisionBranch(Did(proc[p], Ev("provision_vm")), secretsFile, vmState[proc[p].vm])]
  /\ UNCHANGED <<hostVars, clock>>

\* _resolve_vm_ip, then the branch on profile and skip_sync_activation
ProvisionIpBranch(r, source, payload, signal) ==
  IF r.opts.profile = "developer" /\ ~r.skip_sync
  THEN IF source = "" \/ payload = "" THEN Raise(r, "no_locked_paths")
       ELSE Call([r EXCEPT !.act = [NoOpts EXCEPT !.source = source, !.payload = payload,
                                                  !.signal = signal]],
                 "act_start", "pv_signal")
  ELSE [r EXCEPT !.pc = "pv_signal"]

ProvisionIp(p) ==
  /\ proc[p].pc = "pv_ip"
  /\ \/ proc' = [proc EXCEPT ![p] =
          ProvisionIpBranch(proc[p], LockedPathForVm(OPENCLAW_SOURCE_LOCK, proc[p].vm),
                            LockedPathForVm(OPENCLAW_PAYLOAD_LOCK, proc[p].vm),
                            LockedPathForVm(SIGNAL_PAYLOAD_LOCK, proc[p].vm))]
     \/ proc' = [proc EXCEPT ![p] = Raise(proc[p], "ip_timeout")]
  /\ UNCHANGED <<hostVars, clock>>

\* _preflight_signal_payload_marker for developer with the signal payload enabled
ProvisionSignalPreflight(p) ==
  /\ proc[p].pc = "pv_signal"
  /\ \/ proc' = [proc EXCEPT ![p].pc = "pv_playbook"]
     \/ /\ proc[p].opts.profile = "developer" /\ proc[p].opts.signal_payload
        /\ proc' = [proc EXCEPT ![p] = Raise(proc[p], "signal_marker_not_visible")]
  /\ UNCHANGED <<hostVars, clock>>

\* a variant that does not look at the exit code of the playbook run
PlaybookBranchIgnoresExit(r, found, returncode) ==
  IF ~found THEN Raise(r, "playbook_not_found")
  ELSE [Did(r, IF returncode # 0 THEN Ev("playbook_failed") ELSE Ev("playbook_ok"))
          EXCEPT !.pc = "pv_marker"]

\* subprocess.run(playbook_cmd): command not found, non-zero exit, or exit 0
PlaybookBranch(r, found, returncode) ==
  IF ~found THEN Raise(r, "playbook_not_found")
  ELSE IF returncode # 0 THEN Raise(Did(r, Ev("playbook_failed")), "provisioning_failed")
  ELSE [Did(r, Ev("playbook_ok")) EXCEPT !.pc = "pv_marker"]

ProvisionPlaybook(p) ==
  /\ proc[p].pc = "pv_playbook"
  /\ \E found \in BOOLEAN, returncode \in {0, 1} :
       proc' = [proc EXCEPT ![p] = PlaybookBranch(proc[p], found, returncode)]
  /\ UNCHANGED <<hostVars, clock>>

\* marker.write(STATE_DIR / f"{vm_name}.provisioned"), the last statement but a print
ProvisionWriteMarker(r, file, now) ==
  MarkerWrite(r.vm, r.opts.profile, r.opts.playwright, r.opts.tailscale,
              r.opts.signal_cli, r.opts.signal_payload, now)

ProvisionMarker(p) ==
  /\ proc[p].pc = "pv_marker"
  /\ markerFile' = [markerFile EXCEPT ![proc[p].vm] =
                      ProvisionWriteMarker(proc[p], markerFile[proc[p].vm], clock)]
  /\ proc' = [proc EXCEPT ![p] = Return(Did(proc[p], Ev("marker_write")))]
  /\ UNCHANGED <<vmState, lockDir, watcherRec, watcherAlive, watcherPc, sessions, activeVms,
                 hostFiles, secretsFile, mutagenAvailable, logsDir, nextPid, clock>>

\* -------------------------------------------------- orchestrator.py: up
\* a variant that turns an option mismatch into a reason to provision in place
ComputeUpProvisionReasonReprovisions(o, file, created_vm, desired_signal_payload) ==
  LET marker == MarkerFromFile(file) IN
  IF created_vm THEN "created"
  ELSE IF ~file.exists THEN "recreate_marker_missing"
  ELSE IF marker.none THEN "recreate_marker_unparseable"
  ELSE IF \/ marker.profile # o.profile
          \/ marker.playwright # o.playwright
          \/ marker.tailscale # o.tailscale
          \/ marker.signal_cli # o.signal_cli
          \/ marker.signal_payload # desired_signal_payload
       THEN "options changed"
  ELSE ""

\* _compute_up_provision_reason: a reason to provision, "" to skip, or the error raised
ComputeUpProvisionReason(o, file, created_vm, desired_signal_payload) ==
  LET marker == MarkerFromFile(file) IN
  IF created_vm THEN "created"
  ELSE IF ~file.exists THEN "recreate_marker_missing"
  ELSE IF marker.none THEN "recreate_marker_unparseable"
  ELSE IF /\ o.profile = "developer"
          /\ marker.profile = "developer"
          /\ marker.sync_backend # REQUIRED_DEVELOPER_SYNC_BACKEND
       THEN "recreate_legacy_marker"
  ELSE IF \/ marker.profile # o.profile
          \/ marker.playwright # o.playwright
          \/ marker.tailscale # o.tailscale
          \/ marker.signal_cli # o.signal_cli
          \/ marker.signal_payload # desired_signal_payload
       THEN "recreate_mismatch"
  ELSE ""

RecreateErrors == {"recreate_marker_missing", "recreate_marker_unparseable",
                   "recreate_legacy_marker", "recreate_mismatch"}

\* up as far as ensure_secrets_file: the validation of the options, then _validate_dirs
UpStartBranch(r, dirsOk) ==
  IF UpValidation(r.opts) = "requires_signal_cli"
  THEN Raise([r EXCEPT !.errFlag = PayloadFlag(r.opts.signal)], "requires_signal_cli")
  ELSE IF UpValidation(r.opts) # "" THEN Raise(r, UpValidation(r.opts))
  ELSE IF ~dirsOk THEN Raise(r, "dir_missing")
  ELSE [r EXCEPT !.pc = "up_exists"]

\* validation and ensure_secrets_file(create_if_missing=True)
UpStart(p) ==
  /\ proc[p].pc = "up"
  /\ \E dirsOk \in (IF LockQueueFor(proc[p].opts) = <<>> THEN {TRUE} ELSE BOOLEAN) :
       proc' = [proc EXCEPT ![p] = UpStartBranch(Did(proc[p], Ev("up")), dirsOk)]
  /\ secretsFile' = IF proc'[p].pc = "up_exists" THEN TRUE ELSE secretsFile
  /\ UNCHANGED <<vmState, markerFile, lockDir, watcherRec, watcherAlive, watcherPc, sessions,
                 activeVms, hostFiles, mutagenAvailable, logsDir, nextPid, clock>>

\* a variant that starts the watcher of an existing VM before the marker is read
UpExistsBranchStartsWatcher(r, state) ==
  IF state = "absent" THEN Call(r, "create", "up_created")
  ELSE [r EXCEPT !.pc = "sw", !.stack = <<"up_reason">> \o r.stack, !.created_vm = FALSE]

\* if not tart.vm_exists(vm_name): create_vm
UpExistsBranch(r, state) ==
  IF state = "absent" THEN Call(r, "create", "up_created")
  ELSE [r EXCEPT !.pc = "up_reason", !.created_vm = FALSE]

UpExists(p) ==
  /\ proc[p].pc = "up_exists"
  /\ proc' = [proc EXCEPT ![p] = UpExistsBranch(proc[p], vmState[proc[p].vm])]
  /\ UNCHANGED <<hostVars, clock>>

UpCreatedBranch(r, state) ==
  IF state = "absent" THEN Raise(r, "not_found_after_create")
  ELSE [r EXCEPT !.pc = "up_reason", !.created_vm = TRUE]

UpCreated(p) ==
  /\ proc[p].pc = "up_created"
  /\ proc' = [proc EXCEPT ![p] = UpCreatedBranch(proc[p], vmState[proc[p].vm])]
  /\ UNCHANGED <<hostVars, clock>>

\* was_running_at_start and _compute_up_provision_reason
UpReasonBranch(r, state, file) ==
  LET result == ComputeUpProvisionReason(r.opts, file, r.created_vm, r.opts.signal # "") IN
  IF result \in RecreateErrors
  THEN Raise([r EXCEPT !.was_running = (state = "running")], result)
  ELSE [r EXCEPT !.was_running = (state = "running"), !.reason = result,
                 !.pc = "up_ensure"]

UpReason(p) ==
  /\ proc[p].pc = "up_reason"
  /\ proc' = [proc EXCEPT ![p] =
       UpReasonBranch(proc[p], vmState[proc[p].vm], markerFile[proc[p].vm])]
  /\ UNCHANGED <<hostVars, clock>>

\* _ensure_vm_running_for_up
UpEnsureBranch(r, running) ==
  IF running THEN [r EXCEPT !.launched_headless = FALSE, !.pc = "up_prov"]
  ELSE Call([r EXCEPT !.headless = (r.reason # "")], "launch", "up_launched")

UpEnsure(p) ==
  /\ proc[p].pc = "up_ensure"
  /\ proc' = [proc EXCEPT ![p] = UpEnsureBranch(proc[p], vmState[proc[p].vm] = "running")]
  /\ UNCHANGED <<hostVars, clock>>

UpLaunchedBranch(r, running) ==
  IF running THEN [r EXCEPT !.launched_headless = (r.reason # ""), !.pc = "up_prov"]
  ELSE Raise(r, "not_running_after_launch")

UpLaunched(p) ==
  /\ proc[p].pc = "up_launched"
  /\ proc' = [proc EXCEPT ![p] = UpLaunchedBranch(proc[p], vmState[proc[p].vm] = "running")]
  /\ UNCHANGED <<hostVars, clock>>

\* a variant that provisions whatever the reason
UpProvisionBranchAlways(r) ==
  IF r.opts.profile = "developer" THEN [r EXCEPT !.pc = "up_preflight"]
  ELSE [r EXCEPT !.pc = "up_call_provision"]

\* if provision_reason: preflight for developer, then provision_vm
UpProvisionBranch(r) ==
  IF r.reason = "" THEN [r EXCEPT !.pc = "up_after"]
  ELSE IF r.opts.profile = "developer" THEN [r EXCEPT !.pc = "up_preflight"]
  ELSE [r EXCEPT !.pc = "up_call_provision"]

UpProvision(p) ==
  /\ proc[p].pc = "up_prov"
  /\ proc' = [proc EXCEPT ![p] = UpProvisionBranch(proc[p])]
  /\ UNCHANGED <<hostVars, clock>>

\* _preflight_developer_mounts: .clawbox-mount-probe-{time}-{pid}-payload and -signal
ProbeFile(path, kind, token) == <<path, "mount-probe", kind, token>>
ProbeFiles(o, token) ==
  {ProbeFile(o.payload, OPENCLAW_PAYLOAD_LOCK, token)}
    \cup (IF o.signal # "" THEN {ProbeFile(o.signal, SIGNAL_PAYLOAD_LOCK, token)} ELSE {})

\* a variant whose finally forgets the probe of the signal directory
PreflightFinallyPayloadOnly(files, probes) ==
  files \ {f \in probes : f[3] = OPENCLAW_PAYLOAD_LOCK}

\* finally: payload_probe_path.unlink(missing_ok=True), signal_probe_path.unlink(...)
PreflightFinally(files, probes) == files \ probes

\* the two write_text calls inside the try: the payload probe, then the signal probe
\* when a signal payload is given; an OSError leaves through the finally
UpPreflightWrite(p) ==
  /\ proc[p].pc \in {"up_preflight", "up_preflight_signal"}
  /\ LET r == proc[p]
         first == r.pc = "up_preflight"
         kind == IF first THEN OPENCLAW_PAYLOAD_LOCK ELSE SIGNAL_PAYLOAD_LOCK
         path == IF first THEN r.opts.payload ELSE r.opts.signal
         next == IF first /\ r.opts.signal # "" THEN "up_preflight_signal"
                 ELSE "up_preflight_wait" IN
       \/ /\ hostFiles' = hostFiles \cup {ProbeFile(path, kind, r.token)}
          /\ proc' = [proc EXCEPT ![p] = [Mat(r, kind, path) EXCEPT !.pc = next]]
       \/ /\ hostFiles' = PreflightFinally(hostFiles, ProbeFiles(r.opts, r.token))
          /\ proc' = [proc EXCEPT ![p] = Raise(r, "probe_write_failed")]
  /\ UNCHANGED <<vmState, markerFile, lockDir, watcherRec, watcherAlive, watcherPc, sessions,
                 activeVms, secretsFile, mutagenAvailable, logsDir, nextPid, clock>>

\* _wait_for_remote_probe and the finally: the probe files are unlinked when the files
\* are seen in the guest, when the wait times out and when a probe raises
UpPreflightWait(p) ==
  /\ proc[p].pc = "up_preflight_wait"
  /\ hostFiles' = PreflightFinally(hostFiles, ProbeFiles(proc[p].opts, proc[p].token))
  /\ \/ proc' = [proc EXCEPT ![p] =
            [Did(proc[p], Ev("preflight_ok")) EXCEPT !.pc = "up_call_provision"]]
     \/ proc' = [proc EXCEPT ![p] = Raise(proc[p], "preflight_failed")]
     \/ proc' = [proc EXCEPT ![p] = Raise(proc[p], "preflight_probe_error")]
  /\ UNCHANGED <<vmState, markerFile, lockDir, watcherRec, watcherAlive, watcherPc, sessions,
                 activeVms, secretsFile, mutagenAvailable, logsDir, nextPid, clock>>

\* provision_vm(ProvisionOptions(..., enable_signal_payload=desired_signal_payload,
\* skip_sync_activation=opts.profile == "developer"))
UpCallProvision(p) ==
  /\ proc[p].pc = "up_call_provision"
  /\ proc' = [proc EXCEPT ![p] =
       Call([proc[p] EXCEPT !.opts.signal_payload = (proc[p].opts.signal # ""),
                            !.skip_sync = (proc[p].opts.profile = "developer")],
            "provision", "up_provisioned")]
  /\ UNCHANGED <<hostVars, clock>>

\* a variant that relaunches without stopping the headless VM
UpProvisionedBranchNoStop(r, running) ==
  [r EXCEPT !.provision_ran = TRUE,
            !.pc = IF r.launched_headless THEN "up_gui_launch" ELSE "up_after"]

\* provision_ran = True; _relaunch_gui_after_headless_provision: a headless VM that
\* is still running is stopped first, one found not running is launched directly
UpProvisionedBranch(r, running) ==
  LET q == [r EXCEPT !.provision_ran = TRUE] IN
  IF ~q.launched_headless THEN [q EXCEPT !.pc = "up_after"]
  ELSE IF running
  THEN [q EXCEPT !.pc = "xw", !.stack = StopVmChain \o <<"up_gui_stopped">> \o q.stack]
  ELSE [Did(q, Ev("headless_vm_not_running")) EXCEPT !.pc = "up_gui_launch"]

UpProvisioned(p) ==
  /\ proc[p].pc = "up_provisioned"
  /\ proc' = [proc EXCEPT ![p] =
       UpProvisionedBranch(proc[p], vmState[proc[p].vm] = "running")]
  /\ UNCHANGED <<hostVars, clock>>

UpGuiStoppedBranch(r) ==
  IF r.stopped_ok THEN [r EXCEPT !.pc = "up_gui_launch"]
  ELSE Raise(r, "timeout_stop_before_gui")

UpGuiStopped(p) ==
  /\ proc[p].pc = "up_gui_stopped"
  /\ proc' = [proc EXCEPT ![p] = UpGuiStoppedBranch(proc[p])]
  /\ UNCHANGED <<hostVars, clock>>

UpGuiLaunch(p) ==
  /\ proc[p].pc = "up_gui_launch"
  /\ proc' = [proc EXCEPT ![p] =
       Call([proc[p] EXCEPT !.headless = FALSE], "launch", "up_gui_wait")]
  /\ UNCHANGED <<hostVars, clock>>

UpGuiWaitBranch(r, running) ==
  IF running THEN [r EXCEPT !.pc = "up_after"] ELSE Raise(r, "not_running_after_gui")

UpGuiWait(p) ==
  /\ proc[p].pc = "up_gui_wait"
  /\ proc' = [proc EXCEPT ![p] = UpGuiWaitBranch(proc[p], vmState[proc[p].vm] = "running")]
  /\ UNCHANGED <<hostVars, clock>>

\* _ensure_running_after_provision_if_needed
UpAfterBranch(r, running) ==
  IF ~r.provision_ran \/ running THEN [r EXCEPT !.pc = "up_sync"]
  ELSE Call([r EXCEPT !.headless = FALSE], "launch", "up_after_wait")

UpAfter(p) ==
  /\ proc[p].pc = "up_after"
  /\ proc' = [proc EXCEPT ![p] = UpAfterBranch(proc[p], vmState[proc[p].vm] = "running")]
  /\ UNCHANGED <<hostVars, clock>>

UpAfterWaitBranch(r, running) ==
  IF running THEN [r EXCEPT !.pc = "up_sync"] ELSE Raise(r, "not_running_after_provision")

UpAfterWait(p) ==
  /\ proc[p].pc = "up_after_wait"
  /\ proc' = [proc EXCEPT ![p] = UpAfterWaitBranch(proc[p], vmState[proc[p].vm] = "running")]
  /\ UNCHANGED <<hostVars, clock>>

\* should_activate_mutagen: _activate_mutagen_sync with the paths of the arguments
UpSyncBranch(r) ==
  IF r.opts.profile = "developer" /\ r.was_running /\ ~r.provision_ran
  THEN Call([r EXCEPT !.act = r.opts], "act_start", "up_final")
  ELSE [r EXCEPT !.pc = "up_final"]

UpSync(p) ==
  /\ proc[p].pc = "up_sync"
  /\ proc' = [proc EXCEPT ![p] = UpSyncBranch(proc[p])]
  /\ UNCHANGED <<hostVars, clock>>

\* the final check and the line printed
UpFinalBranch(r, running) ==
  IF running
  THEN [r EXCEPT !.pc = "done", !.stack = <<>>, !.outcome = "ok",
                 !.line = IF r.provision_ran THEN "Clawbox is ready"
                          ELSE "Clawbox is running (provisioning skipped)"]
  ELSE Raise(r, "not_running_after_orchestration")

UpFinal(p) ==
  /\ proc[p].pc = "up_final"
  /\ proc' = [proc EXCEPT ![p] = UpFinalBranch(proc[p], vmState[proc[p].vm] = "running")]
  /\ UNCHANGED <<hostVars, clock>>

\* a direct call acquire_path_lock(spec, vm_name, resource_path, tart)
StartAcquire(p, vm, kind, path) ==
  /\ Idle(p)
  /\ clock < MaxLockCalls
  /\ clock' = clock + 1
  /\ proc' = [proc EXCEPT ![p] =
       [IdleProc EXCEPT !.pc = "al_next", !.stack = <<"cmd_ok">>, !.cmd = "acquire",
                        !.vm = vm, !.lockQueue = <<<<kind, path>>>>,
                        !.entryLocks = {<<k, lockDir[k]>> : k \in LockKeys},
                        !.entryRunning = {v \in VMs : vmState[v] = "running"},
                        !.entryRecord = watcherRec[vm]]]
  /\ UNCHANGED hostVars

\* the guest shuts down or the VM process dies
VmPowerOff(vm) ==
  /\ vmState[vm] = "running"
  /\ vmState' = [vmState EXCEPT ![vm] = "stopped"]
  /\ UNCHANGED <<markerFile, lockDir, watcherRec, watcherAlive, watcherPc, sessions, activeVms,
                 hostFiles, secretsFile, mutagenAvailable, logsDir, nextPid, clock, proc>>

\* ------------------------------------------------------ main.py: commands
Standard == NoOpts
StandardTailscale == [NoOpts EXCEPT !.tailscale = TRUE]
Developer(source, payload) ==
  [NoOpts EXCEPT !.profile = "developer", !.source = source, !.payload = payload]
DeveloperSignal ==
  [Developer("/a", "/b") EXCEPT !.signal = "/s", !.signal_cli = TRUE]
DeveloperNoPaths == [NoOpts EXCEPT !.profile = "developer"]

DeveloperSignalNoCli == [DeveloperSignal EXCEPT !.signal_cli = FALSE]
StandardSignalPath == [Standard EXCEPT !.signal = "/s"]
UpPresets == {Standard, StandardTailscale, Developer("/a", "/b"), Developer("/b", "/a"),
              DeveloperSignal, DeveloperNoPaths, DeveloperSignalNoCli, StandardSignalPath}
LaunchPresets == {Standard, Developer("/a", "/b"), DeveloperSignal}
ProvisionPresets ==
  {Standard, DeveloperNoPaths,
   [DeveloperNoPaths EXCEPT !.signal_cli = TRUE, !.signal_payload = TRUE],
   [Standard EXCEPT !.signal_payload = TRUE]}

\* the invocation that has just ended was an up that cloned the VM and ended before
\* the marker write
EndedAfterCreate(r, vm) ==
  /\ r.cmd = "up" /\ r.vm = vm
  /\ Ev("create") \in r.did /\ r.outcome # "create_failed"
  /\ Ev("marker_write") \notin r.did

\* one CLI invocation: main() dispatches to the command with the parsed arguments
StartCmd(p, cmd, vm, o) ==
  /\ Idle(p)
  /\ clock < MaxCmds
  /\ clock' = clock + 1
  /\ proc' = [proc EXCEPT ![p] =
       [IdleProc EXCEPT !.pc = cmd, !.stack = <<"cmd_ok">>, !.cmd = cmd, !.vm = vm,
                        !.opts = o, !.headless = o.headless, !.token = clock + 1,
                        !.entrySecrets = secretsFile,
                        !.after_failed_create = EndedAfterCreate(proc[p], vm),
                        !.entryState = vmState[vm], !.entryMarker = markerFile[vm],
                        !.entryLocks = {<<k, lockDir[k]>> : k \in LockKeys},
                        !.entrySessions = sessions[vm],
                        !.entryRunning = {v \in VMs : vmState[v] = "running"},
                        !.entryRecord = watcherRec[vm]]]
  /\ UNCHANGED hostVars

CommandSteps(p) ==
  \/ LockSteps(p)
  \/ CleanupStart(p) \/ CleanupList(p) \/ CleanupOne(p)
  \/ StopWatcherSignal(p) \/ StopWatcherWait(p)
  \/ StartWatcherCheck(p) \/ StartWatcherSpawn(p) \/ StartWatcherPoll(p)
  \/ TeardownStart(p) \/ TeardownFlush(p) \/ TeardownTerminate(p)
  \/ TeardownToolFails(p) \/ TeardownClear(p)
  \/ StopVmIssue(p) \/ StopVmWait(p)
  \/ DownCheck(p) \/ DownStopped(p)
  \/ DeleteCheck(p) \/ DeleteStopped(p) \/ DeleteIssue(p) \/ DeleteWait(p)
  \/ DeleteMarker(p)
  \/ ActivateStart(p) \/ ActivatePrepare(p) \/ ActivateSession(p) \/ ActivateCreate(p)
  \/ ActivateFlush(p)
  \/ ActivateReadyWrite(p) \/ ActivateReadyPoll(p) \/ ActivateMark(p)
  \/ CreateVm(p)
  \/ LaunchCheck(p) \/ LaunchValidateDirs(p) \/ LaunchSignalMarker(p)
  \/ LaunchRun(p) \/ LaunchWait(p)
  \/ LaunchRunningWatch(p) \/ LaunchSync(p)
  \/ ProvisionCheck(p) \/ ProvisionIp(p) \/ ProvisionSignalPreflight(p)
  \/ ProvisionPlaybook(p) \/ ProvisionMarker(p)
  \/ UpStart(p) \/ UpExists(p) \/ UpCreated(p) \/ UpReason(p) \/ UpEnsure(p)
  \/ UpLaunched(p) \/ UpProvision(p) \/ UpPreflightWrite(p) \/ UpPreflightWait(p)
  \/ UpCallProvision(p) \/ UpProvisioned(p) \/ UpGuiStopped(p) \/ UpGuiLaunch(p)
  \/ UpGuiWait(p) \/ UpAfter(p) \/ UpAfterWait(p) \/ UpSync(p) \/ UpFinal(p)

\* ------------------------------------------------------------ initial states
InitHost ==
  /\ watcherRec = [vm \in VMs |-> 0]
  /\ watcherAlive = [vm \in VMs |-> {}]
  /\ watcherPc = <<>>
  /\ sessions = [vm \in VMs |-> {}]
  /\ activeVms = {}
  /\ hostFiles = {}
  /\ logsDir = NoLogs
  /\ clock = 0
  /\ nextPid = 1
  /\ proc = [p \in Procs |-> IdleProc]

\* ------------------------------------------------ the lock manager alone
InitLocks ==
  /\ InitHost
  /\ markerFile = [vm \in VMs |-> NoMarkerFile]
  /\ lockDir = [key \in LockKeys |-> NoDir]
  /\ vmState \in [VMs -> {"stopped", "running"}]
  /\ secretsFile = TRUE
  /\ mutagenAvailable = TRUE

NextLocks ==
  \/ \E vm \in VMs, path \in Paths : StartAcquire(1, vm, OPENCLAW_SOURCE_LOCK, path)
  \/ LockSteps(1)
  \/ \E vm \in VMs : VmPowerOff(vm)

SpecLocks == InitLocks /\ [][NextLocks]_vars

\* ------------------------------------- one user running commands on one VM
\* marker files left by earlier runs: none, an empty file, a developer marker that
\* predates sync_backend, and markers written by provision_vm
LegacyDeveloperMarker ==
  [exists |-> TRUE,
   data |-> [k \in MarkerKeys \ {"sync_backend"} |->
               MarkerWrite("clawbox-1", "developer", FALSE, FALSE, FALSE, FALSE, 0).data[k]]]
MarkerMenu ==
  {NoMarkerFile, [exists |-> TRUE, data |-> EmptyData], LegacyDeveloperMarker,
   MarkerWrite("clawbox-1", "standard", FALSE, FALSE, FALSE, FALSE, 0),
   MarkerWrite("clawbox-1", "developer", FALSE, FALSE, FALSE, FALSE, 0)}

\* clawbox-2 holds the source lock of /a from an earlier launch
Init ==
  /\ InitHost
  /\ \E state \in {"absent", "stopped", "running"}, other \in {"stopped", "running"} :
       vmState = [vm \in VMs |-> IF vm = "clawbox-1" THEN state ELSE other]
  /\ \E file \in MarkerMenu :
       markerFile = [vm \in VMs |-> IF vm = "clawbox-1" THEN file ELSE NoMarkerFile]
  /\ lockDir = [key \in LockKeys |->
       IF key = <<OPENCLAW_SOURCE_LOCK, "/a">>
       THEN [exists |-> TRUE, path |-> "/a", owner |-> "clawbox-2", updated |-> 1]
       ELSE NoDir]
  /\ secretsFile \in BOOLEAN
  /\ mutagenAvailable \in BOOLEAN

Next ==
  \/ \E o \in UpPresets : StartCmd(1, "up", "clawbox-1", o)
  \/ \E o \in LaunchPresets : StartCmd(1, "launch", "clawbox-1", o)
  \/ \E o \in ProvisionPresets : StartCmd(1, "provision", "clawbox-1", o)
  \/ StartCmd(1, "create", "clawbox-1", NoOpts)
  \/ StartCmd(1, "down", "clawbox-1", NoOpts)
  \/ StartCmd(1, "delete", "clawbox-1", NoOpts)
  \/ CommandSteps(1)
  \/ \E vm \in VMs : VmPowerOff(vm)

Spec == Init /\ [][Next]_vars

\* ------------------------------------------- two launches racing for a path
InitRace ==
  /\ InitHost
  /\ markerFile = [vm \in VMs |-> NoMarkerFile]
  /\ lockDir = [key \in LockKeys |-> NoDir]
  /\ vmState \in [VMs -> {"stopped", "running"}]
  /\ secretsFile = TRUE
  /\ mutagenAvailable = TRUE

LaunchSteps(p) ==
  \/ LockSteps(p)
  \/ StartWatcherCheck(p) \/ StartWatcherSpawn(p) \/ StartWatcherPoll(p)
  \/ ActivateStart(p) \/ ActivatePrepare(p) \/ ActivateSession(p) \/ ActivateCreate(p)
  \/ ActivateFlush(p)
  \/ ActivateReadyWrite(p) \/ ActivateReadyPoll(p) \/ ActivateMark(p)
  \/ LaunchCheck(p) \/ LaunchValidateDirs(p) \/ LaunchSignalMarker(p)
  \/ LaunchRun(p) \/ LaunchWait(p)
  \/ LaunchRunningWatch(p) \/ LaunchSync(p)

NextRace ==
  \/ StartCmd(1, "launch", "clawbox-1", Developer("/a", "/b"))
  \/ StartCmd(2, "launch", "clawbox-2", Developer("/a", "/s"))
  \/ LaunchSteps(1)
  \/ LaunchSteps(2)

SpecRace == InitRace /\ [][NextRace]_vars

\* ------------- acquire_path_lock on stale directories and a failing file system
\* lock_dir.mkdir() raises an OSError other than FileExistsError: sleep and go on to
\* the next attempt, or leave the loop after the last one
AcqMkdirRefused(p) ==
  /\ proc[p].pc = "acq_mkdir"
  /\ proc' = [proc EXCEPT ![p] = NextAttempt(Did(proc[p], Ev("mkdir_refused")))]
  /\ UNCHANGED <<hostVars, clock>>

\* the lock directory of /a is absent, left without metadata by a writer that died, or
\* owned by clawbox-2
InitStale ==
  /\ InitHost
  /\ markerFile = [vm \in VMs |-> NoMarkerFile]
  /\ \E dir \in {NoDir, EmptyDirectory,
                  [exists |-> TRUE, path |-> "/a", owner |-> "clawbox-2", updated |-> 1]} :
       lockDir = [key \in LockKeys |->
                   IF key = <<OPENCLAW_SOURCE_LOCK, "/a">> THEN dir ELSE NoDir]
  /\ vmState \in [VMs -> {"stopped", "running"}]
  /\ secretsFile = TRUE
  /\ mutagenAvailable = TRUE

NextStale ==
  \/ \E vm \in VMs, path \in {"/a", "/b"} : StartAcquire(1, vm, OPENCLAW_SOURCE_LOCK, path)
  \/ LockSteps(1)
  \/ AcqMkdirRefused(1)

\* the caller keeps running until its call has returned or raised
SpecStale == InitStale /\ [][NextStale]_vars /\ WF_vars(LockSteps(1) \/ AcqMkdirRefused(1))

\* ----------------------- two callers of acquire_path_lock, both VMs running
InitLockRace ==
  /\ InitHost
  /\ markerFile = [vm \in VMs |-> NoMarkerFile]
  /\ lockDir = [key \in LockKeys |-> NoDir]
  /\ vmState = [vm \in VMs |-> "running"]
  /\ secretsFile = TRUE
  /\ mutagenAvailable = TRUE

NextLockRace ==
  \/ \E path \in {"/a", "/b"} : StartAcquire(1, "clawbox-1", OPENCLAW_SOURCE_LOCK, path)
  \/ StartAcquire(2, "clawbox-2", OPENCLAW_SOURCE_LOCK, "/a")
  \/ LockSteps(1)
  \/ LockSteps(2)

SpecLockRace == InitLockRace /\ [][NextLockRace]_vars

\* ------------------------------ launches of one VM beside its watcher process
WatchPresets == LaunchPresets \cup {Developer("/b", "/a")}

InitWatch ==
  /\ InitHost
  /\ \E state \in {"stopped", "running"}, other \in {"stopped", "running"} :
       vmState = [vm \in VMs |-> IF vm = "clawbox-1" THEN state ELSE other]
  /\ markerFile = [vm \in VMs |-> NoMarkerFile]
  /\ lockDir = [key \in LockKeys |->
       IF key = <<OPENCLAW_SOURCE_LOCK, "/a">>
       THEN [exists |-> TRUE, path |-> "/a", owner |-> "clawbox-2", updated |-> 1]
       ELSE NoDir]
  /\ secretsFile = TRUE
  /\ mutagenAvailable \in BOOLEAN

NextWatch ==
  \/ \E o \in WatchPresets : StartCmd(1, "launch", "clawbox-1", o)
  \/ LaunchSteps(1)
  \/ VmPowerOff("clawbox-1")
  \/ WatcherSteps

SpecWatch == InitWatch /\ [][NextWatch]_vars

\* -------------------------------- direct calls of the watcher's host functions
\* start_vm_watcher(state_dir, vm), stop_vm_watcher(state_dir, vm) and
\* reconcile_vm_watchers(tart, state_dir), one after the other
StartCall(p, fn, vm) ==
  /\ Idle(p)
  /\ clock < MaxWatcherCalls
  /\ clock' = clock + 1
  /\ proc' = [proc EXCEPT ![p] =
       [IdleProc EXCEPT !.pc = CASE fn = "start_vm_watcher" -> "sw"
                                [] fn = "stop_vm_watcher" -> "xw"
                                [] fn = "reconcile_vm_sync" -> "rs"
                                [] OTHER -> "rc",
                        !.stack = <<"cmd_ok">>, !.cmd = fn, !.vm = vm,
                        !.rcTodo = IF fn = "reconcile_vm_sync" THEN activeVms
                                   ELSE {v \in VMs : watcherRec[v] # 0},
                        !.entryLocks = {<<k, lockDir[k]>> : k \in LockKeys},
                        !.entryRunning = {v \in VMs : vmState[v] = "running"},
                        !.entryRecord = IF vm \in VMs THEN watcherRec[vm] ELSE 0,
                        !.entryWatchers = IF vm \in VMs THEN watcherAlive[vm] ELSE {}]]
  /\ UNCHANGED hostVars

\* the pid each VM's watcher had when it was started
FirstPid(vm) == IF vm = "clawbox-1" THEN 1 ELSE 2

\* records left by earlier runs: none, an unreadable file, the VM's own watcher (alive
\* or dead), or a pid that now belongs to the other VM's watcher; a live watcher is
\* always the one its VM's record names; each VM owns the source lock of one path
InitCalls ==
  /\ vmState \in [VMs -> {"stopped", "running"}]
  /\ \E live \in SUBSET VMs :
       /\ watcherAlive = [vm \in VMs |-> IF vm \in live THEN {FirstPid(vm)} ELSE {}]
       /\ watcherPc = <<IF "clawbox-1" \in live THEN "loop" ELSE "gone",
                        IF "clawbox-2" \in live THEN "loop" ELSE "gone">>
       /\ watcherRec \in [VMs -> {-1, 0, 1, 2}]
       /\ \A vm \in live : watcherRec[vm] = FirstPid(vm)
  /\ nextPid = 3
  /\ markerFile = [vm \in VMs |-> NoMarkerFile]
  /\ lockDir = [key \in LockKeys |->
       IF key = <<OPENCLAW_SOURCE_LOCK, "/a">>
       THEN [exists |-> TRUE, path |-> "/a", owner |-> "clawbox-1", updated |-> 1]
       ELSE IF key = <<OPENCLAW_SOURCE_LOCK, "/b">>
       THEN [exists |-> TRUE, path |-> "/b", owner |-> "clawbox-2", updated |-> 1]
       ELSE NoDir]
  /\ sessions = [vm \in VMs |-> {}]
  /\ activeVms = {}
  /\ hostFiles = {}
  /\ logsDir = NoLogs
  /\ secretsFile = TRUE
  /\ mutagenAvailable \in BOOLEAN
  /\ clock = 0
  /\ proc = [p \in Procs |-> IdleProc]

NextCalls ==
  \/ \E vm \in VMs : StartCall(1, "start_vm_watcher", vm)
  \/ \E vm \in VMs : StartCall(1, "stop_vm_watcher", vm)
  \/ StartCall(1, "reconcile_vm_watchers", "")
  \/ StartWatcherCheck(1) \/ StartWatcherSpawn(1) \/ StartWatcherPoll(1)
  \/ StopWatcherSignal(1) \/ StopWatcherWait(1)
  \/ ReconcileRecord(1) \/ ReconcileDead(1) \/ ReconcileAlive(1)
  \/ CleanupStart(1) \/ CleanupList(1) \/ CleanupOne(1) \/ RmUnlink(1) \/ RmRmdir(1)
  \/ CmdOk(1)
  \/ WatcherSteps

SpecCalls == InitCalls /\ [][NextCalls]_vars

\* ------------------------ two callers of start_vm_watcher for the same VM
InitStartRace ==
  /\ InitHost
  /\ vmState = [vm \in VMs |-> "running"]
  /\ markerFile = [vm \in VMs |-> NoMarkerFile]
  /\ lockDir = [key \in LockKeys |-> NoDir]
  /\ secretsFile = TRUE
  /\ mutagenAvailable \in BOOLEAN

NextStartRace ==
  \/ \E p \in Procs : StartCall(p, "start_vm_watcher", "clawbox-1")
  \/ StartCall(1, "stop_vm_watcher", "clawbox-1")
  \/ StopWatcherSignal(1) \/ StopWatcherWait(1)
  \/ \E p \in Procs : StartWatcherCheck(p)
  \/ \E p \in Procs : StartWatcherSpawn(p)
  \/ \E p \in Procs : StartWatcherPoll(p)
  \/ \E p \in Procs : CmdOk(p)
  \/ VmPowerOff("clawbox-1")
  \/ WatcherSteps

SpecStartRace == InitStartRace /\ [][NextStartRace]_vars

\* ------------------- a VM that stops beside its watcher, under weak fairness
\* the three paths of a developer VM, each with the lock kind and session kind it has
DeveloperKeys ==
  {<<OPENCLAW_SOURCE_LOCK, "/a">>, <<OPENCLAW_PAYLOAD_LOCK, "/b">>, <<SIGNAL_PAYLOAD_LOCK, "/s">>}

\* clawbox-1 is running and watched by pid 1; its locks, sessions and registry entry
\* are any of those a launch can have left, next to locks of clawbox-2
InitStopped ==
  /\ vmState \in [VMs -> {"stopped", "running"}] /\ vmState["clawbox-1"] = "running"
  /\ watcherRec \in [VMs -> {-1, 0, 1}] /\ watcherRec["clawbox-1"] # 0
  /\ watcherRec["clawbox-2"] = 0
  /\ watcherAlive = [vm \in VMs |-> IF vm = "clawbox-1" THEN {1} ELSE {}]
  /\ watcherPc = <<"loop">>
  /\ nextPid = 2
  /\ markerFile = [vm \in VMs |-> NoMarkerFile]
  /\ \E owners \in [DeveloperKeys -> VMs \cup {"none"}] :
       lockDir = [key \in LockKeys |->
         IF key \in DeveloperKeys /\ owners[key] # "none"
         THEN [exists |-> TRUE, path |-> key[2], owner |-> owners[key], updated |-> 1]
         ELSE NoDir]
  /\ mutagenAvailable \in BOOLEAN
  /\ \E mine \in SUBSET DeveloperKeys :
       sessions = [vm \in VMs |-> IF vm = "clawbox-1" /\ mutagenAvailable THEN mine ELSE {}]
  /\ activeVms \in SUBSET VMs
  /\ hostFiles = {}
  /\ logsDir = NoLogs
  /\ secretsFile = TRUE
  /\ clock = 0
  /\ proc = [p \in Procs |-> IdleProc]

NextStopped ==
  \/ VmPowerOff("clawbox-1")
  \/ WatcherSteps

\* the watcher process is scheduled, and its poll of the backend is answered in the end
SpecStopped == InitStopped /\ [][NextStopped]_vars /\ WF_vars(WatcherSteps)

\* --------- cleanup_locks_for_vm of one VM beside acquire_path_lock of another
\* a direct call cleanup_locks_for_vm(vm_name)
StartCleanup(p, vm) ==
  /\ Idle(p)
  /\ clock < MaxLockCalls
  /\ clock' = clock + 1
  /\ proc' = [proc EXCEPT ![p] =
       [IdleProc EXCEPT !.pc = "cu_start", !.stack = <<"cmd_ok">>,
                        !.cmd = "cleanup_locks_for_vm", !.vm = vm,
                        !.entryLocks = {<<k, lockDir[k]>> : k \in LockKeys}]]
  /\ UNCHANGED hostVars

\* the source locks of /a and /b are free or held by either VM
InitCleanRace ==
  /\ InitHost
  /\ markerFile = [vm \in VMs |-> NoMarkerFile]
  /\ \E held \in [{"/a", "/b"} -> {""} \cup VMs] :
       lockDir = [key \in LockKeys |->
                   IF key[1] = OPENCLAW_SOURCE_LOCK /\ key[2] \in {"/a", "/b"}
                      /\ held[key[2]] # ""
                   THEN [exists |-> TRUE, path |-> key[2], owner |-> held[key[2]],
                         updated |-> 1]
                   ELSE NoDir]
  /\ vmState \in [VMs -> {"stopped", "running"}]
  /\ secretsFile = TRUE
  /\ mutagenAvailable = TRUE

NextCleanRace ==
  \/ StartCleanup(1, "clawbox-1")
  \/ CleanupStart(1)
  \/ CleanupList(1)
  \/ CleanupOne(1)
  \/ RmUnlink(1)
  \/ RmRmdir(1)
  \/ CmdOk(1)
  \/ StartAcquire(2, "clawbox-2", OPENCLAW_SOURCE_LOCK, "/a")
  \/ LockSteps(2)

SpecCleanRace == InitCleanRace /\ [][NextCleanRace]_vars

\* --------------- commands on a host whose state files may refuse a write
\* clear_vm_active or remove_mutagen_ssh_alias: atomic_write_text raises OSError, which
\* the except MutagenError of _deactivate_mutagen_sync lets through
TeardownWriteFails(p) ==
  /\ proc[p].pc = "td_clear"
  /\ \E cleared \in BOOLEAN :
       activeVms' = IF cleared THEN activeVms \ {proc[p].vm} ELSE activeVms
  /\ proc' = [proc EXCEPT ![p] = Raise(proc[p], "os_error")]
  /\ UNCHANGED <<vmState, markerFile, lockDir, watcherRec, watcherAlive, watcherPc, sessions,
                 hostFiles, secretsFile, mutagenAvailable, logsDir, nextPid, clock>>

\* mark_vm_active: the same OSError inside the try of _activate_mutagen_sync
ActivateMarkFails(p) ==
  /\ proc[p].pc = "act_mark"
  /\ proc' = [proc EXCEPT ![p] = ActivateExcept(Raise(proc[p], "os_error"))]
  /\ logsDir' = EmitEvents(logsDir, 1)
  /\ UNCHANGED <<quietVars, clock>>

NextEvents ==
  \/ Next
  \/ TeardownWriteFails(1)
  \/ ActivateMarkFails(1)

SpecEvents == Init /\ [][NextEvents]_vars

\* ------------------------------- direct calls of reconcile_vm_sync
\* the registry names any of the VMs, each VM is stopped or running and has a sync
\* session or none
InitSync ==
  /\ watcherRec = [vm \in VMs |-> 0]
  /\ watcherAlive = [vm \in VMs |-> {}]
  /\ watcherPc = <<>>
  /\ vmState \in [VMs -> {"stopped", "running"}]
  /\ mutagenAvailable \in BOOLEAN
  /\ \E synced \in SUBSET VMs :
       sessions = [vm \in VMs |-> IF vm \in synced /\ mutagenAvailable
                                  THEN {<<OPENCLAW_SOURCE_LOCK, "/a">>} ELSE {}]
  /\ activeVms \in SUBSET VMs
  /\ markerFile = [vm \in VMs |-> NoMarkerFile]
  /\ lockDir = [key \in LockKeys |-> NoDir]
  /\ hostFiles = {}
  /\ logsDir = NoLogs
  /\ secretsFile = TRUE
  /\ clock = 0
  /\ nextPid = 1
  /\ proc = [p \in Procs |-> IdleProc]

NextSync ==
  \/ StartCall(1, "reconcile_vm_sync", "")
  \/ ReconcileSync(1)
  \/ ReconcileSyncTeardown(1)
  \/ CmdOk(1)
  \/ \E vm \in VMs : VmPowerOff(vm)

SpecSync == InitSync /\ [][NextSync]_vars

\* ------------- mark_vm_active and clear_vm_active from two invocations
\* a direct call mark_vm_active(state_dir, vm) or clear_vm_active(state_dir, vm)
StartRegistry(p, fn, vm) ==
  /\ Idle(p)
  /\ clock < MaxLockCalls
  /\ clock' = clock + 1
  /\ proc' = [proc EXCEPT ![p] =
       [IdleProc EXCEPT !.pc = "reg_read", !.stack = <<"cmd_ok">>, !.cmd = fn, !.vm = vm]]
  /\ UNCHANGED hostVars

\* vms = _read_active_vms(registry)
RegistryRead(p) ==
  /\ proc[p].pc = "reg_read"
  /\ proc' = [proc EXCEPT ![p].pc = "reg_write", ![p].rcTodo = activeVms]
  /\ UNCHANGED <<hostVars, clock>>

\* the list written back: the one read, with the VM appended or filtered out
RegistryUpdate(fn, vms, vm) == IF fn = "mark_vm_active" THEN vms \cup {vm} ELSE vms \ {vm}

\* _write_active_vms(registry, vms): the file is replaced by the list computed
RegistryWrite(p) ==
  /\ proc[p].pc = "reg_write"
  /\ activeVms' = RegistryUpdate(proc[p].cmd, proc[p].rcTodo, proc[p].vm)
  /\ proc' = [proc EXCEPT ![p] = Return(proc[p])]
  /\ UNCHANGED <<vmState, markerFile, lockDir, watcherRec, watcherAlive, watcherPc, sessions,
                 hostFiles, secretsFile, mutagenAvailable, logsDir, nextPid, clock>>

\* invocation 1 works on clawbox-1 and invocation 2 on clawbox-2
NextRegistry ==
  \/ \E fn \in {"mark_vm_active", "clear_vm_active"} :
        \/ StartRegistry(1, fn, "clawbox-1")
        \/ StartRegistry(2, fn, "clawbox-2")
  \/ RegistryRead(1) \/ RegistryRead(2)
  \/ RegistryWrite(1) \/ RegistryWrite(2)
  \/ CmdOk(1) \/ CmdOk(2)

SpecRegistry == InitSync /\ [][NextRegistry]_vars

\* --------------------------------------- a sequence of emit_sync_event calls
\* the logs directory is empty before the first event is emitted
InitLogs ==
  /\ InitHost
  /\ vmState = [vm \in VMs |-> "stopped"]
  /\ markerFile = [vm \in VMs |-> NoMarkerFile]
  /\ lockDir = [key \in LockKeys |-> NoDir]
  /\ secretsFile = TRUE
  /\ mutagenAvailable = TRUE

\* emit_sync_event with a record of len bytes under CLAWBOX_SYNC_EVENT_LOG_MAX_BYTES
EmitSyncEvent(len, outcome) ==
  /\ clock < MaxEmits
  /\ clock' = clock + 1
  /\ logsDir' = EmitResult(logsDir, len, MaxLogBytes, outcome)
  /\ UNCHANGED <<vmState, markerFile, lockDir, watcherRec, watcherAlive, watcherPc,
                 sessions, activeVms, hostFiles, secretsFile, mutagenAvailable, nextPid,
                 proc>>

NextLogs == \E len \in EventLens, outcome \in EmitOutcomes : EmitSyncEvent(len, outcome)

SpecLogs == InitLogs /\ [][NextLogs]_vars

\* ------------------------------- orchestrator.py: _with_virtualization_limit_hint
\* a text is the sequence of its characters
\* str.lower() on the letters that occur in the texts below
UpperCase == {"C", "D", "E", "H", "L", "M", "O", "R", "S", "V", "Z"}
LowerChar(c) ==
  CASE
   c = "C" -> "c" []
    c = "D" -> "d" []
    c = "E" -> "e" []
    c = "H" -> "h" []
    c = "L" -> "l" []
    c = "M" -> "m" []
    c = "O" -> "o" []
    c = "R" -> "r" []
    c = "S" -> "s" []
    c = "V" -> "v" []
    c = "Z" -> "z" []
    OTHER -> c
Lower(text) == [i \in 1..Len(text) |-> LowerChar(text[i])]
\* token in text
Contains(text, token) ==
  \E i \in 1..(Len(text) - Len(token) + 1) : SubSeq(text, i, i + Len(token) - 1) = token
\* text.count(token) for a token that cannot overlap itself
Occurrences(text, token) ==
  Cardinality({i \in 1..(Len(text) - Len(token) + 1) : SubSeq(text, i, i + Len(token) - 1) = token})
indicators == {
  <<"v", "z", "e", "r", "r", "o", "r", "d", "o", "m", "a", "i", "n">>,
  <<"v", "i", "r", "t", "u", "a", "l", "i", "z", "a", "t", "i", "o", "n">>,
  <<"v", "i", "r", "t", "u", "a", "l", " ", "m", "a", "c", "h", "i", "n", "e", " ", "l", "i",
    "m", "i", "t">>,
  <<"s", "y", "s", "t", "e", "m", " ", "l", "i", "m", "i", "t">>,
  <<"e", "x", "c", "e", "e", "d", "s", " ", "t", "h", "e", " ", "s", "y", "s", "t", "e", "m",
    " ", "l", "i", "m", "i", "t">>,
  <<"m", "a", "x", "i", "m", "u", "m", " ", "n", "u", "m", "b", "e", "r", " ", "o", "f", " ",
    "v", "i", "r", "t", "u", "a", "l", " ", "m", "a", "c", "h", "i", "n", "e", "s">>,
  <<"r", "e", "s", "o", "u", "r", "c", "e", " ", "b", "u", "s", "y">>}
\* the text appended to the message: a newline and the two lines of the hint
HintText ==
  <<"\n", "H", "i", "n", "t", ":", " ", "m", "a", "c", "O", "S", " ", "V", "i", "r", "t", "u",
    "a", "l", "i", "z", "a", "t", "i", "o", "n", ".", "f", "r", "a", "m", "e", "w", "o", "r",
    "k", " ", "m", "a", "y", " ", "b", "e", " ", "r", "e", "f", "u", "s", "i", "n", "g", " ",
    "a", "n", "o", "t", "h", "e", "r", " ", "V", "M", " ", "o", "n", " ", "t", "h", "i", "s",
    " ", "h", "o", "s", "t", ".", "\n", "S", "t", "o", "p", " ", "o", "t", "h", "e", "r", " ",
    "V", "M", "s", " ", "a", "n", "d", " ", "r", "e", "t", "r", "y", " ", "(", "f", "o", "r",
    " ", "e", "x", "a", "m", "p", "l", "e", ":", " ", "c", "l", "a", "w", "b", "o", "x", " ",
    "d", "o", "w", "n", " ", "1", ",", " ", "c", "l", "a", "w", "b", "o", "x", " ", "d", "o",
    "w", "n", " ", "2", ")", ".">>
\* the phrase of the hint the tests look for
HintPhrase ==
  <<"V", "i", "r", "t", "u", "a", "l", "i", "z", "a", "t", "i", "o", "n", ".", "f", "r", "a",
    "m", "e", "w", "o", "r", "k", " ", "m", "a", "y", " ", "b", "e", " ", "r", "e", "f", "u",
    "s", "i", "n", "g", " ", "a", "n", "o", "t", "h", "e", "r", " ", "V", "M">>
WithVirtualizationLimitHint(message) ==
  LET lowered == Lower(message) IN
    IF ~(\E token \in indicators : Contains(lowered, token)) THEN message
    ELSE message \o HintText

\* ----------------------------- error texts of the backend, hinted and hinted again
WordVZErrorDomain ==
  <<"D", "o", "m", "a", "i", "n", "=", "V", "Z", "E", "r", "r", "o", "r", "D", "o", "m", "a",
    "i", "n">>
WordSystemLimit ==
  <<"e", "x", "c", "e", "e", "d", "s", " ", "t", "h", "e", " ", "s", "y", "s", "t", "e", "m",
    " ", "l", "i", "m", "i", "t">>
WordResourceBusy ==
  <<"R", "e", "s", "o", "u", "r", "c", "e", " ", "b", "u", "s", "y">>
WordDiskFull ==
  <<"d", "i", "s", "k", " ", "f", "u", "l", "l">>
WordNotFound ==
  <<"n", "o", "t", " ", "f", "o", "u", "n", "d">>
WordCode ==
  <<"C", "o", "d", "e", "=", "1">>
WordVirtualMachine ==
  <<"V", "i", "r", "t", "u", "a", "l", " ", "M", "a", "c", "h", "i", "n", "e", " ", "L", "i",
    "m", "i", "t">>
BackendWords == {WordVZErrorDomain, WordSystemLimit, WordResourceBusy, WordDiskFull, WordNotFound, WordCode, WordVirtualMachine}
MaxWords == 2           \* phrases in a backend error text
MaxHintApplications == 2 \* applications of the hint to one text
Space == <<" ">>
BackendMessages ==
  {<<>>} \cup BackendWords \cup {a \o Space \o b : a \in BackendWords, b \in BackendWords}
InitHint ==
  /\ watcherRec = [vm \in VMs |-> 0]
  /\ watcherAlive = [vm \in VMs |-> {}]
  /\ watcherPc = <<>>
  /\ sessions = [vm \in VMs |-> {}]
  /\ activeVms = {}
  /\ hostFiles = {}
  /\ logsDir = NoLogs
  /\ clock = 0
  /\ nextPid = 1
  /\ vmState = [vm \in VMs |-> "stopped"]
  /\ markerFile = [vm \in VMs |-> NoMarkerFile]
  /\ lockDir = [key \in LockKeys |-> NoDir]
  /\ secretsFile = TRUE
  /\ mutagenAvailable = TRUE
  /\ \E message \in BackendMessages :
       proc = [p \in Procs |-> IF p = 1 THEN [IdleProc EXCEPT !.cmd = "hint", !.message = message,
                                                               !.hinted = message]
                                         ELSE IdleProc]

\* the text of an error goes through _with_virtualization_limit_hint once more
ApplyHint(p) ==
  /\ proc[p].cmd = "hint"
  /\ proc[p].applied < MaxHintApplications
  /\ proc' = [proc EXCEPT ![p].hinted = WithVirtualizationLimitHint(@),
                          ![p].applied = @ + 1]
  /\ UNCHANGED <<hostVars, clock>>

NextHint == \E p \in Procs : ApplyHint(p)

SpecHint == InitHint /\ [][NextHint]_vars

\* ------------------------------------------------------------------ claims
EntryDir(p, key) == (CHOOSE e \in proc[p].entryLocks : e[1] = key)[2]
AcquireDone(p) == proc[p].cmd = "acquire" /\ proc[p].pc = "done"
AcquireKey(p) == <<proc[p].ak, proc[p].ap>>
\* the call found the lock directory of its path owned by another VM
ForeignOwnerAtEntry(p) ==
  /\ EntryDir(p, AcquireKey(p)).exists
  /\ EntryDir(p, AcquireKey(p)).owner \notin {"", proc[p].vm}

\* C3: acquire_path_lock(kind, vmB, p) on a lock owned by vmA # vmB: when vmA is
\* running the call fails with a LockError naming vmA and leaves the lock directory
\* and its metadata as they were; when vmA is not running the old lock is removed
\* and the call succeeds with the lock owned by vmB.
C3_ForeignOwnerConflictOrReclaim ==
  \A p \in Procs :
    (AcquireDone(p) /\ ForeignOwnerAtEntry(p)) =>
      LET key == AcquireKey(p)
          vmA == EntryDir(p, key).owner IN
        /\ proc[p].outcome \in {"lock_in_use", "ok"}
        /\ (vmState[vmA] = "running") => (proc[p].outcome = "lock_in_use")
        /\ (proc[p].outcome = "lock_in_use") =>
             /\ proc[p].errOwner = vmA
             /\ vmA \in proc[p].entryRunning
             /\ \A k \in LockKeys : lockDir[k] = EntryDir(p, k)
        /\ (vmA \notin proc[p].entryRunning) => (proc[p].outcome = "ok")
        /\ (proc[p].outcome = "ok") =>
             /\ lockDir[key].exists
             /\ lockDir[key].owner = proc[p].vm
             /\ lockDir[key].path = proc[p].ap

C3_Witness_ConflictWithRunningOwner ==
  \E p \in Procs :
    /\ AcquireDone(p) /\ ForeignOwnerAtEntry(p)
    /\ proc[p].outcome = "lock_in_use"
    /\ vmState[proc[p].errOwner] = "running"

OwnedPaths(kind, vm) ==
  {path \in Paths : lockDir[<<kind, path>>].exists /\ lockDir[<<kind, path>>].owner = vm}

\* C5: in every reachable state, the intermediate states of an acquisition included,
\* there is at most one lock directory per (kind, VM) and at most one per (kind, path).
\* A directory is keyed by (kind, path), so the second half holds by construction;
\* this is the first half.
C5_AtMostOneLockPerKindAndVm ==
  \A kind \in ALL_LOCK_SPECS, vm \in VMs : Cardinality(OwnedPaths(kind, vm)) <= 1

HeldOtherPathAtEntry(p) ==
  \E p1 \in Paths \ {proc[p].ap} :
    /\ EntryDir(p, <<proc[p].ak, p1>>).exists
    /\ EntryDir(p, <<proc[p].ak, p1>>).owner = proc[p].vm

\* C6: after acquire_path_lock(kind, vm, p2) succeeds for a VM that held the lock of
\* p1 # p2, exactly one lock directory of that kind is owned by the VM: the one keyed
\* by p2, with path field p2.
C6_SwitchLeavesOnlyNewLock ==
  \A p \in Procs :
    (AcquireDone(p) /\ proc[p].outcome = "ok" /\ HeldOtherPathAtEntry(p)) =>
      /\ OwnedPaths(proc[p].ak, proc[p].vm) = {proc[p].ap}
      /\ lockDir[AcquireKey(p)].path = proc[p].ap

C6_Witness_SwitchedPath ==
  \E p \in Procs :
    /\ AcquireDone(p) /\ proc[p].outcome = "ok" /\ HeldOtherPathAtEntry(p)
    /\ OwnedPaths(proc[p].ak, proc[p].vm) = {proc[p].ap}

\* the marker file holds a parseable marker whose recorded options equal the request
MarkerMatchesRequest(o, file) ==
  /\ file.exists
  /\ DOMAIN file.data # {}
  /\ DataGet(file.data, "profile", "") = o.profile
  /\ DataGet(file.data, "playwright", "false") = BoolText(o.playwright)
  /\ DataGet(file.data, "tailscale", "false") = BoolText(o.tailscale)
  /\ DataGet(file.data, "signal_cli", "false") = BoolText(o.signal_cli)
  /\ DataGet(file.data, "signal_payload", "false") = BoolText(o.signal # "")
  /\ (o.profile = "developer") =>
       (DataGet(file.data, "sync_backend", "") = REQUIRED_DEVELOPER_SYNC_BACKEND)

\* an up with valid arguments and existing host directories on a VM that existed
\* when the command started
UpOnExistingVm(p) ==
  /\ proc[p].cmd = "up"
  /\ UpValidation([proc[p].opts EXCEPT !.signal_payload = FALSE]) = ""
  /\ proc[p].outcome # "dir_missing"
  /\ proc[p].entryState # "absent"

\* C1: up on an existing VM whose marker is missing, unparseable or differs from the
\* request in profile, playwright, tailscale, signal_cli, signal_payload or (for
\* developer) sync_backend ends with the recreate error and never provisions: no
\* create, no provision_vm, no playbook run, and the marker file stays as it was.
C1_MismatchRaisesRecreateNeverProvisions ==
  \A p \in Procs :
    (UpOnExistingVm(p) /\ ~MarkerMatchesRequest(proc[p].opts, proc[p].entryMarker)) =>
      /\ Ev("create") \notin proc[p].did
      /\ Ev("provision_vm") \notin proc[p].did
      /\ Ev("playbook_ok") \notin proc[p].did
      /\ Ev("marker_write") \notin proc[p].did
      /\ Ev("launch_vm") \notin proc[p].did
      /\ markerFile[proc[p].vm] = proc[p].entryMarker
      /\ (proc[p].pc = "done") => (proc[p].outcome \in RecreateErrors)

C1_Witness_MismatchRaised ==
  \E p \in Procs :
    /\ UpOnExistingVm(p)
    /\ proc[p].entryMarker.exists
    /\ DOMAIN proc[p].entryMarker.data # {}
    /\ ~MarkerMatchesRequest(proc[p].opts, proc[p].entryMarker)
    /\ proc[p].pc = "done"
    /\ proc[p].outcome = "recreate_mismatch"

\* C2: up on an existing VM whose marker matches the request neither creates nor
\* provisions, and when the VM is running at the end the command succeeds with the
\* final line "Clawbox is running: <vm> (provisioning skipped)".
C2_MatchSkipsProvisioning ==
  \A p \in Procs :
    (UpOnExistingVm(p) /\ MarkerMatchesRequest(proc[p].opts, proc[p].entryMarker)) =>
      /\ Ev("create") \notin proc[p].did
      /\ Ev("provision_vm") \notin proc[p].did
      /\ Ev("playbook_ok") \notin proc[p].did
      /\ Ev("marker_write") \notin proc[p].did
      /\ markerFile[proc[p].vm] = proc[p].entryMarker
      /\ proc[p].line \in {"", "Clawbox is running (provisioning skipped)"}
      /\ (proc[p].pc = "done" /\ proc[p].outcome = "ok") =>
           (proc[p].line = "Clawbox is running (provisioning skipped)")
      /\ (proc[p].pc = "done" /\ proc[p].outcome = "not_running_after_orchestration") =>
           (vmState[proc[p].vm] # "running")

C2_Witness_SkippedAndRunning ==
  \E p \in Procs :
    /\ UpOnExistingVm(p)
    /\ MarkerMatchesRequest(proc[p].opts, proc[p].entryMarker)
    /\ proc[p].pc = "done"
    /\ proc[p].outcome = "ok"
    /\ vmState[proc[p].vm] = "running"
    /\ proc[p].line = "Clawbox is running (provisioning skipped)"

\* C4: of two launch invocations for different VMs that name the same host path for
\* the same lock kind, at most one VM ends up running and using the path.
C4_OneRunningVmPerPath ==
  \A kind \in ALL_LOCK_SPECS, path \in Paths :
    Cardinality({vm \in VMs : vmState[vm] = "running" /\ <<kind, path>> \in sessions[vm]})
      <= 1

\* C7: within launch, provision and up, the VM holds the path lock of a host directory
\* before any action that materialises state on it (signal payload marker, readiness
\* and probe markers, sync session): nothing is written for a path the VM has not locked.
C7_LockHeldBeforeMaterialising ==
  \A p \in Procs :
    (proc[p].cmd \in {"launch", "provision", "up"}) =>
      \A m \in proc[p].mat : m[3]

\* C8: when a running VM is stopped by down (or by any caller of _stop_vm_and_wait),
\* its sync sessions are flushed and terminated before the backend stop is issued.
C8_SyncFlushedAndTerminatedBeforeStop ==
  \A p \in Procs :
    (Ev("stop") \in proc[p].did) =>
      /\ <<"teardown", "true", "">> \in proc[p].did
      /\ Ev("watcher_stopped") \in proc[p].did
      /\ (mutagenAvailable) =>
           (Ev("sync_flush") \in proc[p].did /\ Ev("sync_terminate") \in proc[p].did)
      /\ (proc[p].cmd \in {"down", "delete"}) => (sessions[proc[p].vm] = {})

C8_Witness_DownWithSessions ==
  \E p \in Procs :
    /\ proc[p].cmd = "down"
    /\ proc[p].entryState = "running"
    /\ proc[p].entrySessions # {}
    /\ Ev("stop") \in proc[p].did
    /\ Ev("sync_flush") \in proc[p].did
    /\ sessions[proc[p].vm] = {}

\* C9: delete removes the marker only after the backend reports the VM absent; when
\* the stop times out or the VM still exists after the delete attempt the command
\* ends in an error and the marker is left as it was.
C9_MarkerRemovedOnlyAfterAbsent ==
  \A p \in Procs :
    (proc[p].cmd = "delete") =>
      /\ (Ev("marker_remove") \in proc[p].did) =>
           (proc[p].absent_seen /\ vmState[proc[p].vm] = "absent")
      /\ (Ev("marker_remove") \notin proc[p].did) =>
           (markerFile[proc[p].vm] = proc[p].entryMarker)
      /\ (proc[p].pc = "done" /\ vmState[proc[p].vm] # "absent") =>
           /\ proc[p].outcome # "ok"
           /\ markerFile[proc[p].vm] = proc[p].entryMarker

C9_Witness_MarkerRemovedAfterDelete ==
  \E p \in Procs :
    /\ proc[p].cmd = "delete"
    /\ proc[p].entryState # "absent"
    /\ proc[p].entryMarker.exists
    /\ Ev("delete") \in proc[p].did
    /\ Ev("marker_remove") \in proc[p].did
    /\ ~markerFile[proc[p].vm].exists

\* files and registries that a command changes on the host
HostState == <<markerFile, lockDir, watcherRec, watcherAlive, watcherPc, sessions, activeVms,
               hostFiles, secretsFile>>

\* C10: provision_vm writes the marker only after the provisioning tool exited 0 and
\* as its last state-changing step; when it fails earlier, no marker is written or
\* modified.
C10_MarkerWrittenLastAfterSuccess ==
  /\ [](\A p \in Procs :
          /\ (Ev("marker_write") \in proc[p].did) => (Ev("playbook_ok") \in proc[p].did)
          /\ (proc[p].cmd \in {"provision", "up"} /\ Ev("marker_write") \notin proc[p].did)
               => (markerFile[proc[p].vm] = proc[p].entryMarker))
  /\ [][\A p \in Procs :
          (proc[p].cmd = "provision" /\ Ev("marker_write") \in proc[p].did
             /\ proc'[p].cmd = "provision")
            => (HostState' = HostState)]_vars

C10_Witness_MarkerWritten ==
  \E p \in Procs :
    /\ proc[p].cmd = "provision"
    /\ Ev("marker_write") \in proc[p].did
    /\ Ev("playbook_ok") \in proc[p].did
    /\ markerFile[proc[p].vm] # proc[p].entryMarker
    /\ proc[p].pc = "done"
    /\ proc[p].outcome = "ok"

\* C11: when an up that cloned the VM ended before the marker write, the next up for
\* that VM refuses with a recreate error: it never skips provisioning and never prints
\* the ready line or the running line.
C11_UpAfterFailedCreateRefuses ==
  \A p \in Procs :
    (proc[p].cmd = "up" /\ proc[p].after_failed_create /\ UpValidation(proc[p].opts) = "")
      => /\ proc[p].line = ""
         /\ Ev("launch_vm") \notin proc[p].did
         /\ (proc[p].pc = "done") => (proc[p].outcome \in RecreateErrors)

\* C12: when launch returns successfully and the VM has not stopped since, the
\* watcher record of the VM exists and its pid is a live process that is the watcher
\* of that VM.
C12_LaunchLeavesLiveWatcherRecord ==
  \A p \in Procs :
    (proc[p].cmd = "launch" /\ proc[p].pc = "done" /\ proc[p].outcome = "ok"
       /\ vmState[proc[p].vm] = "running")
      => /\ RecordPid(proc[p].vm) # 0
         /\ IsWatcherPid(RecordPid(proc[p].vm), proc[p].vm)

\* C13: when down or delete returns successfully, no watcher record of the VM exists,
\* whether the VM was absent, running or stopped at entry.
C13_DownDeleteLeaveNoWatcherRecord ==
  \A p \in Procs :
    (proc[p].cmd \in {"down", "delete"} /\ proc[p].pc = "done" /\ proc[p].outcome = "ok")
      => watcherRec[proc[p].vm] = 0

C13_Witness_DownStoppedRecordedWatcher ==
  \E p \in Procs :
    /\ proc[p].cmd = "down" /\ proc[p].pc = "done" /\ proc[p].outcome = "ok"
    /\ proc[p].entryState = "running"
    /\ Ev("sigterm") \in proc[p].did
    /\ watcherRec[proc[p].vm] = 0

\* up --standard on a VM that is absent and has no marker file
FirstRunStandard(p) ==
  /\ proc[p].cmd = "up" /\ proc[p].opts = Standard
  /\ proc[p].entryState = "absent" /\ ~proc[p].entryMarker.exists

RefusedMismatch(p) ==
  proc[p].cmd = "up" /\ proc[p].pc = "done" /\ proc[p].outcome = "recreate_mismatch"

\* C15: an up that refuses because the options do not match the marker changes nothing:
\* the marker file, the path locks, the watcher record and the sync sessions are as at
\* entry, and none of its steps changes whether the VM exists or runs.
C15_MismatchRefusalChangesNothing ==
  /\ [](\A p \in Procs :
          RefusedMismatch(p) =>
            /\ proc[p].did = {Ev("up")}
            /\ markerFile[proc[p].vm] = proc[p].entryMarker
            /\ {<<k, lockDir[k]>> : k \in LockKeys} = proc[p].entryLocks
            /\ watcherRec[proc[p].vm] = proc[p].entryRecord
            /\ sessions[proc[p].vm] = proc[p].entrySessions)
  /\ [][\A p \in Procs :
          (proc[p].cmd = "up" /\ proc'[p] # proc[p] /\ proc'[p].cmd = "up"
             /\ proc'[p].did = {Ev("up")})
            => /\ vmState' = vmState
               /\ <<markerFile, lockDir, watcherRec, watcherAlive, sessions, activeVms,
                     hostFiles>>' =
                  <<markerFile, lockDir, watcherRec, watcherAlive, sessions, activeVms,
                    hostFiles>>]_vars

C15_Witness_RefusedWithLocksAndWatcher ==
  \E p \in Procs :
    /\ RefusedMismatch(p)
    /\ proc[p].entryState = "running"
    /\ watcherRec[proc[p].vm] # 0
    /\ sessions[proc[p].vm] # {}
    /\ \E k \in LockKeys : lockDir[k].exists /\ lockDir[k].owner = proc[p].vm

\* the lock directories whose owner_vm names the VM
LockDirsOwnedBy(vm) == {k \in LockKeys : lockDir[k].exists /\ lockDir[k].owner = vm}

\* C17: when delete returns successfully the VM is absent from the backend, its marker
\* file does not exist and no lock directory owned by the VM remains, whether the VM
\* was absent, stopped or running at entry.
C17_DeleteLeavesNothing ==
  \A p \in Procs :
    (proc[p].cmd = "delete" /\ proc[p].pc = "done" /\ proc[p].outcome = "ok")
      => /\ vmState[proc[p].vm] = "absent"
         /\ ~markerFile[proc[p].vm].exists
         /\ LockDirsOwnedBy(proc[p].vm) = {}

C17_Witness_DeletedRunningVmWithLocks ==
  \E p \in Procs :
    /\ proc[p].cmd = "delete" /\ proc[p].pc = "done" /\ proc[p].outcome = "ok"
    /\ proc[p].entryState = "running"
    /\ proc[p].entryMarker.exists
    /\ \E e \in proc[p].entryLocks : e[2].exists /\ e[2].owner = proc[p].vm
    /\ vmState[proc[p].vm] = "absent"
    /\ LockDirsOwnedBy(proc[p].vm) = {}

\* a down that has ended, with or without an error
DownEnded(p) == proc[p].cmd = "down" /\ proc[p].pc = "done"

\* C18 as stated: every execution of down ends with the cleanup of the VM's locks and
\* leaves no lock directory owned by the VM.
C18_EveryDownCleansLocks ==
  \A p \in Procs :
    DownEnded(p) => /\ Ev("locks_cleaned") \in proc[p].did
                    /\ LockDirsOwnedBy(proc[p].vm) = {}

\* C18: every down that returns successfully, on each branch (VM absent, running,
\* already stopped), has the cleanup of the VM's locks as its last step and leaves no
\* lock directory owned by the VM; a down that raises (stop timed out, sync tool
\* failed) has not cleaned the locks.
C18_SuccessfulDownCleansLocksLast ==
  \A p \in Procs :
    /\ (proc[p].cmd = "down" /\ Ev("locks_cleaned") \in proc[p].did)
         => proc[p].pc \in {"cmd_ok", "done"}
    /\ DownEnded(p) =>
         IF proc[p].outcome = "ok"
         THEN /\ Ev("locks_cleaned") \in proc[p].did
              /\ LockDirsOwnedBy(proc[p].vm) = {}
         ELSE /\ proc[p].outcome \in {"timeout_stop", "sync_error"}
              /\ Ev("locks_cleaned") \notin proc[p].did

C18_Witness_DownRunningCleanedLocks ==
  \E p \in Procs :
    /\ DownEnded(p) /\ proc[p].outcome = "ok"
    /\ proc[p].entryState = "running"
    /\ \E e \in proc[p].entryLocks : e[2].exists /\ e[2].owner = proc[p].vm
    /\ Ev("locks_cleaned") \in proc[p].did
    /\ LockDirsOwnedBy(proc[p].vm) = {}

\* a call of start_vm_watcher that has returned or raised, for a VM that is running
StartEnded(p) ==
  /\ proc[p].cmd = "start_vm_watcher"
  /\ proc[p].pc = "done"
  /\ vmState[proc[p].vm] = "running"

\* C19: start_vm_watcher called while the record names a live process that is this VM's
\* watcher returns that pid, spawns nothing and leaves the record as it was; a record
\* naming a dead process or a process that is not this VM's watcher is deleted and a new
\* watcher is spawned and recorded; after every successful call, however many came
\* before, the VM has exactly one watcher process and the record names it
C19_StartWatcherIdempotent ==
  \A p \in Procs :
    LET r == proc[p] IN
    StartEnded(p) =>
      /\ (r.entryRecord > 0 /\ r.entryRecord \in r.entryWatchers) =>
            /\ r.outcome = "ok"
            /\ r.wpid = r.entryRecord
            /\ Ev("spawn") \notin r.did
            /\ watcherRec[r.vm] = r.entryRecord
            /\ watcherAlive[r.vm] = r.entryWatchers
      /\ (r.entryRecord > 0 /\ r.entryRecord \notin r.entryWatchers) =>
            /\ Ev("record_unlinked") \in r.did
            /\ watcherRec[r.vm] # r.entryRecord
            /\ r.outcome = "ok" =>
                  /\ Ev("spawn") \in r.did
                  /\ r.wpid \notin r.entryWatchers
      /\ r.outcome = "ok" =>
            /\ watcherRec[r.vm] = r.wpid
            /\ watcherAlive[r.vm] = {r.wpid}

\* the third call in a row finds the watcher an earlier call started and reuses it
C19_Witness_ThirdStartReuses ==
  /\ StartEnded(1)
  /\ clock = MaxWatcherCalls
  /\ proc[1].outcome = "ok"
  /\ Ev("reused") \in proc[1].did
  /\ proc[1].entryRecord = 3

\* a call of stop_vm_watcher that has returned
StopEnded(p) == proc[p].cmd = "stop_vm_watcher" /\ proc[p].pc = "done"

\* C20: when stop_vm_watcher has returned, also right after a start_vm_watcher for the
\* same VM, the VM has no watcher record and no watcher process, as before the start;
\* SIGKILL is sent only after SIGTERM was sent, and only in a step that finds the
\* process still running when the wait is over
C20_StartThenStopLeavesNothing ==
  /\ [](\A p \in Procs :
         /\ StopEnded(p) =>
               /\ proc[p].outcome = "ok"
               /\ watcherRec[proc[p].vm] = 0
               /\ watcherAlive[proc[p].vm] = {}
         /\ Ev("sigkill") \in proc[p].did => Ev("sigterm") \in proc[p].did)
  /\ [][\A p \in Procs :
         (Ev("sigkill") \in proc'[p].did /\ Ev("sigkill") \notin proc[p].did) =>
           /\ proc[p].pc = "xw_wait"
           /\ Ev("sigterm") \in proc[p].did
           /\ PidRunning(proc[p].wpid)
           /\ ~PidRunning(proc[p].wpid)']_vars

\* the watcher a start_vm_watcher call spawned is stopped by the next call and exits on
\* SIGTERM, so no SIGKILL is sent
C20_Witness_StartedThenStopped ==
  /\ StopEnded(1)
  /\ proc[1].entryRecord = 3
  /\ proc[1].entryWatchers = {3}
  /\ Ev("sigterm") \in proc[1].did
  /\ Ev("sigkill") \notin proc[1].did
  /\ watcherRec[proc[1].vm] = 0
  /\ watcherAlive[proc[1].vm] = {}

\* what a reconcile_vm_watchers call has found for a VM's record so far
RcSaw(r, vm, pidState, answer) ==
  <<"rc_pid", vm, pidState>> \in r.did /\ <<"rc_vm", vm, answer>> \in r.did

\* the lock directories a VM owned when the call began
EntryLocksOwnedBy(r, vm) == {e[1] : e \in {x \in r.entryLocks : x[2].exists /\ x[2].owner = vm}}

\* C16: reconcile_vm_watchers, for a record whose pid is alive and whose VM the backend
\* reports not running, stops the watcher, deletes the record and removes the VM's locks;
\* for a record whose pid is dead it deletes the record and removes the VM's locks
\* exactly when the backend reports the VM not running; no step of it signals a watcher
\* or removes a lock of a VM the backend reported running or could not report on
C16_ReconcileStopsOnlyWatchersOfStoppedVms ==
  /\ [](\A p \in Procs, vm \in VMs :
         LET r == proc[p] IN
         r.cmd = "reconcile_vm_watchers" =>
           /\ <<"rc_stop", vm, "">> \in r.did <=> RcSaw(r, vm, "alive", "stopped")
           /\ <<"rc_cleanup", vm, "">> \in r.did <=>
                 (RcSaw(r, vm, "alive", "stopped") \/ RcSaw(r, vm, "dead", "stopped"))
           /\ <<"rc_pid", vm, "dead">> \in r.did => watcherRec[vm] = 0
           /\ r.pc = "done" =>
                 /\ r.outcome = "ok"
                 /\ <<"rc_cleanup", vm, "">> \in r.did => LockDirsOwnedBy(vm) = {}
                 /\ <<"rc_stop", vm, "">> \in r.did =>
                       watcherRec[vm] = 0 /\ watcherAlive[vm] = {})
  /\ [][\A p \in Procs, vm \in VMs :
         (/\ proc[p].cmd = "reconcile_vm_watchers"
          /\ proc'[p] # proc[p]
          /\ proc'[p].cmd = "reconcile_vm_watchers"
          /\ <<"rc_vm", vm, "stopped">> \notin proc'[p].did) =>
           /\ LockDirsOwnedBy(vm)' = LockDirsOwnedBy(vm)
           /\ watcherAlive'[vm] = watcherAlive[vm]
           /\ \A pid \in watcherAlive[vm] : watcherPc'[pid] = watcherPc[pid]]_vars

\* one call stops the live watcher of a VM reported not running and removes its locks,
\* and drops the dead record of a VM it could not ask about, whose locks it leaves
C16_Witness_StoppedOneKeptOther ==
  LET r == proc[1] IN
    /\ r.cmd = "reconcile_vm_watchers" /\ r.pc = "done"
    /\ RcSaw(r, "clawbox-1", "alive", "stopped")
    /\ Ev("sigterm") \in r.did
    /\ EntryLocksOwnedBy(r, "clawbox-1") # {}
    /\ LockDirsOwnedBy("clawbox-1") = {}
    /\ watcherRec["clawbox-1"] = 0 /\ watcherAlive["clawbox-1"] = {}
    /\ RcSaw(r, "clawbox-2", "dead", "unknown")
    /\ r.entryRecord = 0
    /\ watcherRec["clawbox-2"] = 0
    /\ LockDirsOwnedBy("clawbox-2") = EntryLocksOwnedBy(r, "clawbox-2")
    /\ LockDirsOwnedBy("clawbox-2") # {}

\* C21: after any sequence of emit_sync_event calls the event log file is never larger
\* than the configured maximum, no file but the one rotation file is kept beside it, and
\* a rotation puts the log as it was in the place of the previous rotation file
C21_LogNeverExceedsMaxBytes ==
  /\ [](/\ StSize(logsDir[SYNC_EVENT_LOG_FILE]) <= MaxLogBytes
        /\ DOMAIN logsDir = {SYNC_EVENT_LOG_FILE, SYNC_EVENT_LOG_ROTATED_FILE})
  /\ [][logsDir'[SYNC_EVENT_LOG_ROTATED_FILE] # logsDir[SYNC_EVENT_LOG_ROTATED_FILE] =>
          \/ logsDir'[SYNC_EVENT_LOG_ROTATED_FILE] = logsDir[SYNC_EVENT_LOG_FILE]
          \/ ~logsDir'[SYNC_EVENT_LOG_ROTATED_FILE].exists]_vars

\* the readiness markers of an invocation that are in host paths now
ReadyMarkersOf(p) == {f \in hostFiles : f[2] = "sync-ready" /\ f[4] = proc[p].token}

\* C22: outside the readiness wait no readiness marker of the invocation is left in a
\* host path, whichever way the wait ended: required paths seen, timeout, an exception
\* of a probe, or an error while one of the markers was written
C22_ReadyMarkersGoneAfterWait ==
  \A p \in Procs :
    (proc[p].cmd \in {"up", "launch", "provision"}
       /\ proc[p].pc \notin {"act_ready", "act_poll"}) => ReadyMarkersOf(p) = {}

\* the probe files of an invocation that are in host directories now
ProbeFilesOf(p) == {f \in hostFiles : f[2] = "mount-probe" /\ f[4] = proc[p].token}

\* the preflight of an up has ended: the probe files were seen, the wait timed out, or
\* a probe or a write raised
PreflightEnded(p) ==
  /\ proc[p].cmd = "up"
  /\ proc[p].pc \notin {"up_preflight", "up_preflight_signal", "up_preflight_wait"}

\* C23: once the developer-mounts preflight has ended, on success, on timeout and when
\* a probe raised, no probe file it wrote is left in the payload or signal directory
C23_ProbeFilesGoneAfterPreflight ==
  \A p \in Procs : PreflightEnded(p) => ProbeFilesOf(p) = {}

\* an up with a signal payload whose preflight ended by an exception of the probe,
\* after both probe files had been written
C23_Witness_ProbeRaisedFilesGone ==
  /\ proc[1].cmd = "up" /\ proc[1].pc = "done"
  /\ proc[1].outcome = "preflight_probe_error"
  /\ proc[1].opts.signal # ""
  /\ {m \in proc[1].mat : m[1] = SIGNAL_PAYLOAD_LOCK} # {}
  /\ ProbeFilesOf(1) = {}

\* launch_vm found the VM running and the profile is developer
LaunchedRunningDeveloper(p) ==
  Ev("already_running") \in proc[p].did /\ proc[p].opts.profile = "developer"

\* every lock _acquire_locks takes for the paths of the invocation has been acquired
AllLocked(r) ==
  \A i \in DOMAIN LockQueueFor(r.opts) :
    <<"locked", LockQueueFor(r.opts)[i][1], LockQueueFor(r.opts)[i][2]>> \in r.did

C25_LaunchRunningSkipsLocksAndMarker ==
  \A p \in Procs :
    Ev("already_running") \in proc[p].did =>
      /\ \A k \in ALL_LOCK_SPECS, q \in Paths : <<"locked", k, q>> \notin proc[p].did
      /\ Ev("signal_marker") \notin proc[p].did
      /\ {<<k, lockDir[k]>> : k \in LockKeys} = proc[p].entryLocks

\* an up given a signal payload path without signal-cli provisioning
UpSignalPathNoCli(r) == r.cmd = "up" /\ r.opts.signal # "" /\ ~r.opts.signal_cli

\* the same with options that pass the profile and mount-argument checks
UpDeveloperSignalPathNoCli(r) ==
  /\ UpSignalPathNoCli(r)
  /\ r.opts.profile = "developer" /\ r.opts.source # "" /\ r.opts.payload # ""

\* the invocation ended with "<flag> requires --add-signal-cli-provisioning" naming
\* --signal-cli-payload
EndedRequiresSignalCli(r) ==
  /\ r.outcome = "requires_signal_cli"
  /\ r.errFlag = "--signal-cli-payload"
  /\ r.did = {Ev("up")}

\* C26 as stated: every up with a signal payload path and without signal-cli
\* provisioning ends with the message '--signal-cli-payload requires
\* --add-signal-cli-provisioning', and no step of it creates the secrets file, creates
\* or starts a VM or takes a lock
C26_UpSignalPathNoCliFailsWithMessage ==
  /\ [](\A p \in Procs :
         UpSignalPathNoCli(proc[p]) =>
           /\ proc[p].pc \in {"up", "done"}
           /\ proc[p].pc = "done" => EndedRequiresSignalCli(proc[p]))
  /\ [][\A p \in Procs :
         (UpSignalPathNoCli(proc[p]) /\ proc'[p] # proc[p] /\ proc'[p].cmd = "up") =>
           UNCHANGED <<secretsFile, vmState, lockDir>>]_vars

\* C26 for developer profile with source and payload paths: an up with a signal payload
\* path and without signal-cli provisioning ends with the message '--signal-cli-payload
\* requires --add-signal-cli-provisioning', and no step of it creates the secrets file,
\* creates or starts a VM, takes a lock or changes anything else on the host
C26_UpDeveloperSignalPathNoCliFailsFirst ==
  /\ [](\A p \in Procs :
         UpDeveloperSignalPathNoCli(proc[p]) =>
           /\ proc[p].pc \in {"up", "done"}
           /\ proc[p].pc = "done" => EndedRequiresSignalCli(proc[p]))
  /\ [][\A p \in Procs :
         (UpDeveloperSignalPathNoCli(proc[p]) /\ proc'[p] # proc[p]
            /\ proc'[p].cmd = "up") => UNCHANGED hostVars]_vars

\* the up of the claim has failed on a host without a secrets file and an absent VM,
\* and both are as they were
C26_Witness_FailedBeforeSecrets ==
  /\ UpDeveloperSignalPathNoCli(proc[1])
  /\ proc[1].pc = "done"
  /\ EndedRequiresSignalCli(proc[1])
  /\ ~proc[1].entrySecrets /\ ~secretsFile
  /\ proc[1].entryState = "absent" /\ vmState["clawbox-1"] = "absent"

\* C27: applying the virtualization-limit hint twice to a message gives the text that
\* applying it once gives, and the hint text is in it at most once.
C27_HintTwiceSameAsOnce ==
  \A p \in Procs :
    (proc[p].cmd = "hint" /\ proc[p].applied = MaxHintApplications) =>
      /\ proc[p].hinted = WithVirtualizationLimitHint(proc[p].message)
      /\ Occurrences(proc[p].hinted, HintPhrase) <= 1

\* C28: two calls of acquire_path_lock for different VMs, both running throughout,
\* on the same (kind, path) never both succeed, also when one of them is slow between
\* creating the lock directory and writing owner_vm and the other reclaims the
\* directory as having empty owner metadata.
C28_RunningVmsNeverBothAcquire ==
  \A p \in Procs, q \in Procs :
    (/\ AcquireDone(p) /\ AcquireDone(q)
     /\ proc[p].vm # proc[q].vm
     /\ AcquireKey(p) = AcquireKey(q)
     /\ \A vm \in VMs : vmState[vm] = "running") =>
      ~(proc[p].outcome = "ok" /\ proc[q].outcome = "ok")

\* the lock directory of every path of the invocation exists and names the VM as owner
HoldsLocks(r) ==
  \A i \in DOMAIN LockQueueFor(r.opts) :
    LET key == <<LockQueueFor(r.opts)[i][1], LockQueueFor(r.opts)[i][2]>> IN
      lockDir[key].exists /\ lockDir[key].owner = r.vm

\* C29: a watcher never removes the locks or sync sessions of a running VM: when a
\* developer launch has returned successfully and the VM is running, its path locks
\* are owned by the VM, its sync sessions exist and its watcher record names a live
\* watcher of the VM, whatever an older watcher that saw the VM not running does.
C29_WatcherSparesRunningVm ==
  \A p \in Procs :
    (/\ proc[p].cmd = "launch" /\ proc[p].pc = "done" /\ proc[p].outcome = "ok"
     /\ proc[p].opts.profile = "developer"
     /\ vmState[proc[p].vm] = "running") =>
      /\ HoldsLocks(proc[p])
      /\ sessions[proc[p].vm] # {}
      /\ IsWatcherPid(RecordPid(proc[p].vm), proc[p].vm)

\* C30: at most one live watcher process exists per VM at any time, also while and
\* after concurrent start_vm_watcher calls for the same VM.
C30_AtMostOneLiveWatcherPerVm ==
  \A vm \in VMs : Cardinality(watcherAlive[vm]) <= 1

\* a step of the watcher process pid from one phase of run_vm_watcher_loop to another
WatcherMoves(pid, from, to) ==
  /\ pid \in DOMAIN watcherPc
  /\ watcherPc[pid] = from /\ watcherPc'[pid] = to
  /\ proc' = proc

LocksOwnedBy(dirs, vm) == {k \in LockKeys : dirs[k].exists /\ dirs[k].owner = vm}

StoppedAndWatched == vmState["clawbox-1"] = "stopped" /\ watcherAlive["clawbox-1"] # {}

StaleAtEntry(p) ==
  /\ EntryDir(p, AcquireKey(p)).exists
  /\ EntryDir(p, AcquireKey(p)).owner = ""
  /\ Ev("mkdir_refused") \notin proc[p].did

C34_AnyNonzeroExitFails ==
  \A p \in Procs :
    (proc[p].exit # 0) => (proc[p].pc = "done" /\ proc[p].outcome = "sync_error")

\* C34: ensure_vm_sessions, for each session spec in order, terminates any session of
\* the same name, whatever the exit code of the terminate, and then creates the session
\* in two-way-resolved mode; after all sessions it issues one labelled flush; it fails
\* with a sync error when a create or the flush exits nonzero.
C34_EnsureSessionsSteps ==
  [][\A p \in Procs :
       LET r == proc[p]
           q == proc'[p] IN
         /\ (r.pc = "act_sess" /\ r.specs # <<>> /\ q # r) =>
              /\ q.pc = "act_create" /\ q.specs = r.specs
              /\ <<"sync_terminate", Head(r.specs)[1], "">> \in q.did
              /\ \A x \in sessions'[r.vm] : x[1] # Head(r.specs)[1]
         /\ (r.pc = "act_create" /\ q # r) =>
              IF q.exit = 0
              THEN /\ q.pc = "act_sess" /\ q.specs = Tail(r.specs)
                   /\ <<"sync_create", Head(r.specs)[1], "two-way-resolved">> \in q.did
                   /\ sessions'[r.vm] = sessions[r.vm] \cup {Head(r.specs)}
              ELSE q.pc = "done" /\ q.outcome = "sync_error" /\ sessions' = sessions
         /\ (r.pc = "act_sess" /\ r.specs = <<>> /\ q # r) =>
              /\ sessions' = sessions
              /\ IF q.exit = 0
                 THEN q.pc = "act_ready" /\ Ev("sync_flush_label") \in q.did
                 ELSE q.pc = "done" /\ q.outcome = "sync_error"
         /\ (Ev("sync_flush_label") \in q.did /\ Ev("sync_flush_label") \notin r.did) =>
              (r.pc = "act_sess" /\ r.specs = <<>>)
    ]_vars

\* the source session is created, the terminate for the payload session has exited
\* nonzero, and the function is about to create the payload session
C34_Witness_TerminateNonzeroGoesOn ==
  \E p \in Procs :
    /\ proc[p].pc = "act_create" /\ proc[p].exit = 1
    /\ <<"sync_create", OPENCLAW_SOURCE_LOCK, SESSION_MODE>> \in proc[p].did
    /\ Head(proc[p].specs)[1] = OPENCLAW_PAYLOAD_LOCK

\* the paths every developer activation has
RequiredPaths == {OPENCLAW_SOURCE_LOCK, OPENCLAW_PAYLOAD_LOCK}

\* C35: the readiness wait never times out when the markers of the required paths,
\* source and payload, are visible in the guest: a signal-payload marker that is still
\* not visible does not by itself make sync activation fail.
C35_PendingSignalNeverTimesOut ==
  \A p \in Procs :
    (proc[p].pc = "done" /\ proc[p].outcome = "sync_not_ready") =>
      ~(RequiredPaths \subseteq proc[p].seen)

\* the backend answered the call that the VM is not running
ReportedStopped(r, vm) == <<"rs_answer", vm, "stopped">> \in r.did

\* C36: after reconcile_vm_sync has returned, no VM the backend reported as not
\* running is in the active-VM registry, and its sessions were terminated without
\* flush; no step of the call touches the registry entry or the sessions of a VM that
\* was reported running or whose query failed.
C36_ReconcileSyncRemovesStopped ==
  /\ [](\A p \in Procs :
         (proc[p].cmd = "reconcile_vm_sync" /\ proc[p].pc = "done" /\ proc[p].outcome = "ok")
           => \A vm \in VMs :
                ReportedStopped(proc[p], vm) =>
                  /\ vm \notin activeVms
                  /\ sessions[vm] = {}
                  /\ <<"rs_teardown", vm, "teardown">> \in proc[p].did)
  /\ [][\A vm \in VMs :
         (sessions'[vm] # sessions[vm] \/ (vm \in activeVms') # (vm \in activeVms))
           => ReportedStopped(proc'[1], vm)]_vars

\* a call has returned that was told one VM is stopped and the other running
C36_Witness_StoppedRemovedRunningKept ==
  \E p \in Procs :
    /\ proc[p].cmd = "reconcile_vm_sync" /\ proc[p].pc = "done" /\ proc[p].outcome = "ok"
    /\ ReportedStopped(proc[p], "clawbox-1")
    /\ <<"rs_answer", "clawbox-2", "running">> \in proc[p].did
    /\ activeVms = {"clawbox-2"}
    /\ sessions["clawbox-2"] # {}

\* C37: cleanup_locks_for_vm(vm) removes exactly the lock directories whose owner_vm
\* is vm: no step of the call changes a directory that another VM owns at that moment,
\* and once the call has returned no directory that named vm when it began is left
\* with that owner.
C37_CleanupTouchesOnlyOwnLocks ==
  /\ [][\A p \in Procs, k \in LockKeys :
         (proc[p].cmd = "cleanup_locks_for_vm" /\ proc'[p] # proc[p]
            /\ lockDir'[k] # lockDir[k])
           => lockDir[k].owner \in {"", proc[p].vm}]_vars
  /\ [](\A p \in Procs :
         (proc[p].cmd = "cleanup_locks_for_vm" /\ proc[p].pc = "done")
           => \A k \in LockKeys :
                (\E d \in {e \in proc[p].entryLocks : e[1] = k} : d[2].owner = proc[p].vm)
                  => lockDir[k].owner # proc[p].vm)

\* C38: updates of the active-VM registry are not lost under concurrency: once the
\* mark_vm_active and clear_vm_active calls of concurrent invocations for different VMs
\* have completed, the registry holds each VM whose last call was a mark and no VM
\* whose last call was a clear.
C38_RegistryUpdatesNotLost ==
  (\A p \in Procs : proc[p].pc = "done")
    => \A p \in Procs :
         /\ proc[p].cmd = "mark_vm_active" => proc[p].vm \in activeVms
         /\ proc[p].cmd = "clear_vm_active" => proc[p].vm \notin activeVms

\* C39: down never creates, modifies or deletes the provision marker: no step of a
\* down changes the marker file and the file is the same when down ends as when it
\* began, on every branch; the marker is written only at the end of a provision whose
\* playbook succeeded and removed only by delete.
C39_DownNeverTouchesMarker ==
  /\ [][\A vm \in VMs :
         markerFile'[vm] # markerFile[vm]
           => \E p \in Procs :
                /\ proc[p].cmd # "down" /\ proc[p].vm = vm /\ proc'[p] # proc[p]
                /\ \/ /\ proc[p].pc = "pv_marker"
                      /\ Ev("playbook_ok") \in proc[p].did
                      /\ markerFile'[vm].exists
                   \/ /\ proc[p].cmd = "delete" /\ proc[p].pc = "del_marker"
                      /\ markerFile'[vm] = NoMarkerFile]_vars
  /\ [](\A p \in Procs :
         (proc[p].cmd = "down" /\ proc[p].pc = "done")
           => markerFile[proc[p].vm] = proc[p].entryMarker)

\* a down that stopped a running, provisioned VM has ended with the marker as it was
C39_Witness_DownKeptMarker ==
  \E p \in Procs :
    /\ proc[p].cmd = "down" /\ proc[p].pc = "done" /\ proc[p].outcome = "ok"
    /\ proc[p].entryState = "running" /\ Ev("stop") \in proc[p].did
    /\ Ev("locks_cleaned") \in proc[p].did
    /\ proc[p].entryMarker.exists
    /\ markerFile[proc[p].vm] = proc[p].entryMarker

\* what a sequence of lifecycle events leaves open: nothing, an activation, a teardown,
\* or "bad" when an event came that the events before it do not allow
RECURSIVE OpenAfter(_)
OpenAfter(log) ==
  IF log = <<>> THEN ""
  ELSE LET before == OpenAfter(SubSeq(log, 1, Len(log) - 1))
           event == log[Len(log)] IN
         CASE event = "activate_start" -> IF before = "" THEN "activate" ELSE "bad"
           [] event = "teardown_start" -> IF before = "" THEN "teardown" ELSE "bad"
           [] event \in {"activate_ok", "activate_error"} ->
                IF before = "activate" THEN "" ELSE "bad"
           [] OTHER -> IF before = "teardown" THEN "" ELSE "bad"

InActivation(r) ==
  r.pc \in {"act_prep", "act_sess", "act_create", "act_ready", "act_poll", "act_mark"}
InTeardown(r) == r.pc \in {"td_flush", "td_term", "td_clear"}

\* C40 as stated: every activate_start is followed, before the activation returns or
\* raises, by exactly one activate_ok or activate_error, and every teardown_start by
\* exactly one teardown_ok or teardown_error, whatever error the operation fails with.
C40_LifecycleEventsPaired ==
  \A p \in Procs :
    /\ OpenAfter(proc[p].log) # "bad"
    /\ OpenAfter(proc[p].log) = "activate" <=> InActivation(proc[p])
    /\ OpenAfter(proc[p].log) = "teardown" <=> InTeardown(proc[p])

\* C40 as the code has it: the activation events are paired whatever exception ends
\* the activation; the teardown events are paired when the teardown returns or fails
\* with a MutagenError, and a teardown_start stays without its second event exactly when
\* the teardown ended in another error (an OSError of the registry or ssh alias write).
C40_LifecycleEventsPairedButOsError ==
  \A p \in Procs :
    /\ OpenAfter(proc[p].log) # "bad"
    /\ OpenAfter(proc[p].log) = "activate" <=> InActivation(proc[p])
    /\ OpenAfter(proc[p].log) = "teardown"
         <=> (InTeardown(proc[p])
              \/ (proc[p].pc = "done" /\ proc[p].outcome = "os_error"
                  /\ proc[p].log[Len(proc[p].log)] = "teardown_start"))

\* an activation ended by the OSError of mark_vm_active has emitted activate_error
C40_Witness_ActivationErrorPaired ==
  \E p \in Procs :
    /\ proc[p].pc = "done" /\ proc[p].outcome = "os_error"
    /\ Len(proc[p].log) >= 2
    /\ proc[p].log[Len(proc[p].log)] = "activate_error"
    /\ proc[p].log[Len(proc[p].log) - 1] = "activate_start"

====
